---------------------------- MODULE Spec2Model ----------------------------
(***************************************************************************)
(* A model of ndx-test: the evaluator contract, the built-in evaluators    *)
(* and the orchestration engine evaluate() / runEvaluators().              *)
(*                                                                         *)
(* JavaScript numbers are modelled as exact extended rationals <<n, d>>:   *)
(* d > 0 is the rational n/d in lowest terms, <<1,0>> is +Infinity,        *)
(* <<-1,0>> is -Infinity and <<0,0>> is NaN.  Rounding of IEEE doubles and *)
(* the sign of zero are not modelled.                                      *)
(***************************************************************************)
EXTENDS Integers, Sequences, FiniteSets, TLC

VARIABLES
    response,    \* the response string handed to evaluate(), as its features
    config,      \* the EvaluationConfig handed to evaluate()
    pc,          \* evaluate() is at "loop", "await", "return", "done" or "raised"
    next,        \* position of the for-of iterator over config.evaluators
    cur,         \* index of the evaluator whose promise the engine awaits
    ev,          \* per evaluator invocation: the state of its async body
    results,     \* the results array of runEvaluators
    report,      \* the EvaluationReport returned by evaluate(), or NoReport
    log,         \* history: the invocations, callback calls and settlements
    lastIndex,   \* lastIndex of each module-level RegExp of TOXICITY_SIGNALS
    other        \* a second evaluate() call, suspended, or NoCall

vars == <<response, config, pc, next, cur, ev, results, report, log, lastIndex, other>>

-----------------------------------------------------------------------------
(* Bounds of the model *)

MaxEvaluators == 3

-----------------------------------------------------------------------------
(* JavaScript numbers *)

Abs(k) == IF k < 0 THEN -k ELSE k

RECURSIVE Gcd(_, _)
Gcd(a, b) == IF b = 0 THEN a ELSE Gcd(b, a % b)

NaN == <<0, 0>>
PosInf == <<1, 0>>
NegInf == <<-1, 0>>

Sign(k) == IF k > 0 THEN 1 ELSE IF k < 0 THEN -1 ELSE 0

\* n/d with d any integer: division by zero gives an infinity or NaN
Norm(n, d) ==
    IF d = 0 THEN <<Sign(n), 0>>
    ELSE LET g == Gcd(Abs(n), Abs(d))
             s == IF d < 0 THEN -1 ELSE 1
         IN  <<(s * n) \div g, (s * d) \div g>>

Num(k) == <<k, 1>>
Frac(n, d) == Norm(n, d)

IsNaN(a) == a = NaN
IsInf(a) == a[2] = 0 /\ a[1] # 0
IsFinite(a) == a[2] > 0

NumNeg(a) == <<-a[1], a[2]>>

NumAdd(a, b) ==
    IF IsNaN(a) \/ IsNaN(b) THEN NaN
    ELSE IF IsInf(a) THEN (IF IsInf(b) /\ b # a THEN NaN ELSE a)
    ELSE IF IsInf(b) THEN b
    ELSE Norm(a[1] * b[2] + b[1] * a[2], a[2] * b[2])

NumSub(a, b) == NumAdd(a, NumNeg(b))

NumMul(a, b) ==
    IF IsNaN(a) \/ IsNaN(b) THEN NaN
    ELSE IF IsInf(a) \/ IsInf(b)
         THEN (IF a[1] = 0 \/ b[1] = 0 THEN NaN ELSE <<Sign(a[1]) * Sign(b[1]), 0>>)
    ELSE Norm(a[1] * b[1], a[2] * b[2])

NumDiv(a, b) ==
    IF IsNaN(a) \/ IsNaN(b) THEN NaN
    ELSE IF IsInf(a) THEN (IF IsInf(b) THEN NaN
                           ELSE IF b[1] < 0 THEN NumNeg(a) ELSE a)
    ELSE IF IsInf(b) THEN Num(0)
    ELSE Norm(a[1] * b[2], a[2] * b[1])

\* a < b, a <= b, a >= b, a > b: false as soon as one side is NaN
NumLt(a, b) ==
    /\ ~IsNaN(a) /\ ~IsNaN(b)
    /\ IF IsInf(a) /\ IsInf(b) THEN a[1] < b[1]
       ELSE a[1] * b[2] < b[1] * a[2]

NumLe(a, b) == ~IsNaN(a) /\ ~IsNaN(b) /\ (a = b \/ NumLt(a, b))
NumGe(a, b) == NumLe(b, a)
NumGt(a, b) == NumLt(b, a)

MathMax(a, b) == IF IsNaN(a) \/ IsNaN(b) THEN NaN ELSE IF NumLt(a, b) THEN b ELSE a
MathMin(a, b) == IF IsNaN(a) \/ IsNaN(b) THEN NaN ELSE IF NumLt(b, a) THEN b ELSE a

-----------------------------------------------------------------------------
(* types.ts *)

Severity == {"error", "warning", "info"}
EvaluationCategory == {"semantic", "guardrail", "structural", "consistency"}

\* an EvaluationResult; metadata is kept as an evaluator-specific record
Result(name, pass, score, threshold, category, severity, details, metadata) ==
    [name |-> name, pass |-> pass, score |-> score, threshold |-> threshold,
     category |-> category, severity |-> severity, details |-> details,
     metadata |-> metadata]

NoMetadata == [none |-> TRUE]

\* how an evaluator invocation (or a callback) settles
Returned(r) == [type |-> "return", value |-> r]
Threw(e) == [type |-> "throw", error |-> e]

\* thrown values: an Error object with a message, or a bare string or number
ErrorObj(m) == [type |-> "Error", message |-> m]
ThrownString(s) == [type |-> "string", str |-> s]
ThrownNumber(a) == [type |-> "number", num |-> a]

-----------------------------------------------------------------------------
(* Strings.  What the JavaScript library computes from a text (JSON.parse,  *)
(* String.match with a given RegExp, new URL) is carried beside the text as *)
(* a feature of the response.                                               *)

\* the characters of a text, each a one-character string
Chars(text) == [k \in 1..Len(text) |-> SubSeq(text, k, k)]

RECURSIVE Join(_)
Join(chars) == IF chars = <<>> THEN "" ELSE Head(chars) \o Join(Tail(chars))

Digit(k) == CASE k = 0 -> "0" [] k = 1 -> "1" [] k = 2 -> "2" [] k = 3 -> "3"
              [] k = 4 -> "4" [] k = 5 -> "5" [] k = 6 -> "6" [] k = 7 -> "7"
              [] k = 8 -> "8" [] OTHER -> "9"

\* Number.prototype.toFixed(2) of a clamped score
ToFixed2(a) ==
    IF IsNaN(a) THEN "NaN"
    ELSE LET h == (200 * a[1] + a[2]) \div (2 * a[2])
         IN  ToString(h \div 100) \o "." \o Digit((h % 100) \div 10) \o Digit(h % 10)

RECURSIVE DecimalDigits(_, _, _)
DecimalDigits(n, d, left) ==
    IF n = 0 \/ left = 0 THEN ""
    ELSE Digit((10 * n) \div d) \o DecimalDigits((10 * n) % d, d, left - 1)

\* String(number) as a template literal prints it (17 digits at the most)
NumStr(a) ==
    IF IsNaN(a) THEN "NaN"
    ELSE IF a = PosInf THEN "Infinity"
    ELSE IF a = NegInf THEN "-Infinity"
    ELSE IF a[2] = 1 THEN ToString(a[1])
    ELSE (IF a[1] < 0 THEN "-" ELSE "") \o ToString(Abs(a[1]) \div a[2]) \o "."
         \o DecimalDigits(Abs(a[1]) % a[2], a[2], 17)

RECURSIVE JoinWith(_, _)
JoinWith(strs, sep) ==
    IF strs = <<>> THEN ""
    ELSE IF Len(strs) = 1 THEN strs[1]
    ELSE strs[1] \o sep \o JoinWith(Tail(strs), sep)

RECURSIVE SelectSeqOf(_, _)
SelectSeqOf(s, keep) ==
    IF s = <<>> THEN <<>>
    ELSE (IF Head(s) \in keep THEN <<Head(s)>> ELSE <<>>) \o SelectSeqOf(Tail(s), keep)

Range(s) == {s[k] : k \in DOMAIN s}

\* String.match(pattern) for a global RegExp: the matches, or null (as 0 matches)
MatchCount(resp, pattern) ==
    IF pattern \in DOMAIN resp.matches THEN resp.matches[pattern] ELSE 0

-----------------------------------------------------------------------------
(* structural/max-length.ts *)

\* mutant: the severity option is ignored
SeverityAlwaysDefault(options, dflt) == dflt

\* const { severity = 'error' } = options
SeverityOr(options, dflt) ==
    IF "severity" \in DOMAIN options THEN options.severity ELSE dflt

maxLength(limit, options) ==
    [kind |-> "maxLength", fname |-> "", limit |-> limit,
     severity |-> SeverityOr(options, "error")]

\* mutant: the score without Math.max(0, ...)
maxLengthScoreUnclamped(length, limit) ==
    IF NumLe(length, limit) THEN Num(1)
    ELSE NumSub(Num(1), NumDiv(NumSub(length, limit), limit))

maxLengthScore(length, limit) ==
    IF NumLe(length, limit) THEN Num(1)
    ELSE MathMax(Num(0), NumSub(Num(1), NumDiv(NumSub(length, limit), limit)))

maxLengthEvaluator(d, resp) ==
    LET length == Num(Len(resp.text))
        limit == d.limit
    IN  Result("maxLength", NumLe(length, limit), maxLengthScore(length, limit),
               Num(1), "structural", d.severity,
               IF NumLe(length, limit)
               THEN "Response length " \o NumStr(length) \o " is within limit of "
                    \o NumStr(limit)
               ELSE "Response length " \o NumStr(length) \o " exceeds limit of "
                    \o NumStr(limit) \o " by " \o NumStr(NumSub(length, limit))
                    \o " characters",
               [length |-> length, limit |-> limit])

-----------------------------------------------------------------------------
(* structural/min-length.ts *)

minLength(minimum, options) ==
    [kind |-> "minLength", fname |-> "", minimum |-> minimum,
     severity |-> SeverityOr(options, "error")]

\* mutant: the score without Math.min(1, ...)
minLengthScoreUncapped(length, minimum) ==
    IF NumGt(minimum, Num(0)) THEN NumDiv(length, minimum) ELSE Num(1)

minLengthScore(length, minimum) ==
    IF NumGt(minimum, Num(0)) THEN MathMin(Num(1), NumDiv(length, minimum))
    ELSE Num(1)

minLengthEvaluator(d, resp) ==
    LET length == Num(Len(resp.text))
        minimum == d.minimum
    IN  Result("minLength", NumGe(length, minimum), minLengthScore(length, minimum),
               Num(1), "structural", d.severity,
               IF NumGe(length, minimum)
               THEN "Response length " \o NumStr(length) \o " meets minimum of "
                    \o NumStr(minimum)
               ELSE "Response length " \o NumStr(length) \o " is below minimum of "
                    \o NumStr(minimum) \o " by " \o NumStr(NumSub(minimum, length))
                    \o " characters",
               [length |-> length, minimum |-> minimum])

-----------------------------------------------------------------------------
(* structural/required-fields.ts *)

\* JSON.parse(response): it throws, or gives null, a primitive, an array or an
\* object with own keys
JsonInvalid == [ok |-> FALSE, type |-> "invalid", keys |-> {}]
JsonNull == [ok |-> TRUE, type |-> "null", keys |-> {}]
JsonPrimitive == [ok |-> TRUE, type |-> "primitive", keys |-> {}]
JsonArray == [ok |-> TRUE, type |-> "array", keys |-> {}]
JsonObject(keys) == [ok |-> TRUE, type |-> "object", keys |-> keys]

\* the names every object parsed from JSON inherits from Object.prototype
ObjectPrototypeKeys == {"constructor", "toString", "valueOf", "hasOwnProperty"}

\* field in parsed
FieldIn(field, parsed) == field \in parsed.keys \/ field \in ObjectPrototypeKeys

requiredFields(fields, options) ==
    [kind |-> "requiredFields", fname |-> "", fields |-> fields,
     severity |-> SeverityOr(options, "error")]

\* mutant: the ratio without the guard for an empty fields array
requiredFieldsScoreUnguarded(found, fields) == NumDiv(Num(Len(found)), Num(Len(fields)))

\* fields.length > 0 ? found.length / fields.length : 1.0
requiredFieldsScore(found, fields) ==
    IF Len(fields) > 0 THEN NumDiv(Num(Len(found)), Num(Len(fields))) ELSE Num(1)

requiredFieldsEvaluator(d, resp) ==
    LET fields == d.fields
        parsed == resp.json
    IN  IF ~parsed.ok
        THEN Result("requiredFields", FALSE, Num(0), Num(1), "structural",
                    d.severity, "Response is not valid JSON",
                    [requiredFields |-> fields, foundFields |-> <<>>])
        ELSE IF parsed.type # "object"
        THEN Result("requiredFields", FALSE, Num(0), Num(1), "structural",
                    d.severity, "Response is not a JSON object",
                    [requiredFields |-> fields, foundFields |-> <<>>])
        ELSE LET found == SelectSeqOf(fields, {f \in Range(fields) : FieldIn(f, parsed)})
                 missing == SelectSeqOf(fields, {f \in Range(fields) : ~FieldIn(f, parsed)})
                 score == requiredFieldsScore(found, fields)
             IN  Result("requiredFields", Len(missing) = 0, score, Num(1),
                        "structural", d.severity,
                        IF Len(missing) = 0
                        THEN "All " \o ToString(Len(fields)) \o " required fields present"
                        ELSE "Missing fields: " \o JoinWith(missing, ", "),
                        [requiredFields |-> fields, foundFields |-> found,
                         missingFields |-> missing])

-----------------------------------------------------------------------------
(* structural/json-schema.ts *)

\* A Zod schema is modelled as z.object of required keys (schema.order lists
\* them, schema.required is their set); safeParse answers success, or the
\* issues (each a path and a message)
jsonSchema(schema, options) ==
    [kind |-> "jsonSchema", fname |-> "", schema |-> schema,
     severity |-> SeverityOr(options, "error")]

\* mutant: a schema that accepts whatever was parsed
SafeParseAccepting(schema, parsed) == [success |-> TRUE, issues |-> <<>>]

SafeParse(schema, parsed) ==
    IF parsed.type = "object" /\ schema.required \subseteq parsed.keys
    THEN [success |-> TRUE, issues |-> <<>>]
    ELSE IF parsed.type # "object"
    THEN [success |-> FALSE,
          issues |-> <<[path |-> "", message |-> "Expected object"]>>]
    ELSE LET absent == SelectSeqOf(schema.order, schema.required \ parsed.keys)
         IN  [success |-> FALSE,
              issues |-> [k \in 1..Len(absent) |->
                            [path |-> absent[k], message |-> "Required"]]]

jsonSchemaEvaluator(d, resp) ==
    LET parsed == resp.json
    IN  IF ~parsed.ok
        THEN Result("jsonSchema", FALSE, Num(0), Num(1), "structural", d.severity,
                    "Response is not valid JSON",
                    [errors |-> <<"Failed to parse JSON">>])
        ELSE LET result == SafeParse(d.schema, parsed)
                 errors == [k \in 1..Len(result.issues) |->
                              result.issues[k].path \o ": " \o result.issues[k].message]
             IN  IF result.success
                 THEN Result("jsonSchema", TRUE, Num(1), Num(1), "structural",
                             d.severity, "Response conforms to the expected schema",
                             [validatedData |-> parsed])
                 ELSE Result("jsonSchema", FALSE, Num(0), Num(1), "structural",
                             d.severity,
                             "Schema validation failed: " \o JoinWith(errors, "; "),
                             [errors |-> errors, issueCount |-> Len(result.issues)])

-----------------------------------------------------------------------------
(* guardrails/no-personal-data.ts *)

\* Object.entries(BUILT_IN_PATTERNS), in insertion order
BUILT_IN_PATTERNS == <<"email", "phone", "ssn", "creditCard", "ipAddress">>

noPersonalData(options) ==
    [kind |-> "noPersonalData", fname |-> "",
     severity |-> SeverityOr(options, "error"),
     customPatterns |-> IF "customPatterns" \in DOMAIN options
                        THEN options.customPatterns ELSE <<>>,
     exclude |-> IF "exclude" \in DOMAIN options THEN options.exclude ELSE <<>>]

\* a pattern of noPersonalData: its RegExp (the key of its matches in the
\* response), whether the RegExp has the g flag, and its capture groups
Pattern(name, pattern, global, groups) ==
    [name |-> name, pattern |-> pattern, global |-> global, groups |-> groups]

\* matches.length of response.match(pattern): every match for a global
\* RegExp; the first match and its capture groups for one without g
MatchLength(resp, p) ==
    LET n == MatchCount(resp, p.pattern)
    IN  IF n = 0 THEN 0
        ELSE IF p.global THEN n
        ELSE 1 + p.groups

\* the detections array: one entry per pattern with at least one match
RECURSIVE Detect(_, _)
Detect(patterns, resp) ==
    IF patterns = <<>> THEN <<>>
    ELSE LET p == Head(patterns)
             n == MatchLength(resp, p)
         IN  (IF n > 0 THEN <<[type |-> p.name, count |-> n]>> ELSE <<>>)
             \o Detect(Tail(patterns), resp)

RECURSIVE SumCounts(_)
SumCounts(detections) ==
    IF detections = <<>> THEN 0
    ELSE Head(detections).count + SumCounts(Tail(detections))

EnabledBuiltIns(exclude) ==
    SelectSeqOf(BUILT_IN_PATTERNS, Range(BUILT_IN_PATTERNS) \ Range(exclude))

noPersonalDataEvaluator(d, resp) ==
    LET builtIn == EnabledBuiltIns(d.exclude)
        detections ==
            Detect([k \in 1..Len(builtIn) |->
                      Pattern(builtIn[k], builtIn[k], TRUE, 0)], resp)
            \o Detect(d.customPatterns, resp)
        pass == Len(detections) = 0
        totalMatches == SumCounts(detections)
    IN  Result("noPersonalData", pass, IF pass THEN Num(1) ELSE Num(0), Num(1),
               "guardrail", d.severity,
               IF pass THEN "No personal data detected"
               ELSE "Detected " \o ToString(totalMatches) \o " PII match(es) across "
                    \o ToString(Len(detections)) \o " category(ies): "
                    \o JoinWith([k \in 1..Len(detections) |-> detections[k].type], ", "),
               [detections |-> IF pass THEN <<>> ELSE detections,
                patternsChecked |-> Len(builtIn) + Len(d.customPatterns)])

-----------------------------------------------------------------------------
(* guardrails/on-topic.ts *)

\* a caller-supplied async scorer, by how its promise settles
NoCallback == [kind |-> "none"]
ScorerReturns(v) == [kind |-> "returns", value |-> v]
ScorerThrows(e) == [kind |-> "throws", error |-> e]

ToLowerCase(c) ==
    CASE c = "A" -> "a" [] c = "B" -> "b" [] c = "C" -> "c" [] c = "D" -> "d"
      [] c = "E" -> "e" [] c = "F" -> "f" [] c = "G" -> "g" [] c = "H" -> "h"
      [] c = "I" -> "i" [] c = "J" -> "j" [] c = "K" -> "k" [] c = "L" -> "l"
      [] c = "M" -> "m" [] c = "N" -> "n" [] c = "O" -> "o" [] c = "P" -> "p"
      [] c = "Q" -> "q" [] c = "R" -> "r" [] c = "S" -> "s" [] c = "T" -> "t"
      [] c = "U" -> "u" [] c = "V" -> "v" [] c = "W" -> "w" [] c = "X" -> "x"
      [] c = "Y" -> "y" [] c = "Z" -> "z" [] OTHER -> c

\* \w and \s of a RegExp
WordChars ==
    {"a", "b", "c", "d", "e", "f", "g", "h", "i", "j", "k", "l", "m", "n", "o",
     "p", "q", "r", "s", "t", "u", "v", "w", "x", "y", "z", "A", "B", "C", "D",
     "E", "F", "G", "H", "I", "J", "K", "L", "M", "N", "O", "P", "Q", "R", "S",
     "T", "U", "V", "W", "X", "Y", "Z", "0", "1", "2", "3", "4", "5", "6", "7",
     "8", "9", "_"}
SpaceChars == {" ", "\t", "\n"}

\* text.split(/\s+/): the runs between whitespace, as strings
RECURSIVE SplitSpaces(_, _)
SplitSpaces(chars, word) ==
    IF chars = <<>> THEN <<word>>
    ELSE IF Head(chars) \in SpaceChars
         THEN IF Tail(chars) # <<>> /\ Head(Tail(chars)) \in SpaceChars
              THEN SplitSpaces(Tail(chars), word)
              ELSE <<word>> \o SplitSpaces(Tail(chars), <<>>)
    ELSE SplitSpaces(Tail(chars), Append(word, Head(chars)))

tokenize(text) ==
    LET lower == [k \in 1..Len(text) |-> ToLowerCase(Chars(text)[k])]
        stripped == SelectSeqOf(lower, WordChars \cup SpaceChars)
        words == SplitSpaces(stripped, <<>>)
        kept == SelectSeqOf(words, {w \in Range(words) : Len(w) > 2})
    IN  [k \in 1..Len(kept) |-> Join(kept[k])]

\* [...new Set(tokens)]: the first occurrences, in order
RECURSIVE Dedup(_, _)
Dedup(tokens, seen) ==
    IF tokens = <<>> THEN <<>>
    ELSE IF Head(tokens) \in seen THEN Dedup(Tail(tokens), seen)
    ELSE <<Head(tokens)>> \o Dedup(Tail(tokens), seen \cup {Head(tokens)})

\* mutant: the ratio without the early return for a topic without tokens
keywordScoreUnguarded(resp, topic) ==
    LET topicTokens == Dedup(tokenize(topic), {})
        responseTokens == Range(tokenize(resp.text))
        matchedCount == Len(SelectSeqOf(topicTokens, responseTokens))
    IN  NumDiv(Num(matchedCount), Num(Len(topicTokens)))

keywordScore(resp, topic) ==
    LET topicTokens == Dedup(tokenize(topic), {})
        responseTokens == Range(tokenize(resp.text))
        matchedCount == Len(SelectSeqOf(topicTokens, responseTokens))
    IN  IF Len(topicTokens) = 0 THEN Num(1)
        ELSE NumDiv(Num(matchedCount), Num(Len(topicTokens)))

onTopic(topic, options) ==
    [kind |-> "onTopic", fname |-> "", topic |-> topic,
     severity |-> SeverityOr(options, "warning"),
     threshold |-> IF "threshold" \in DOMAIN options
                   THEN options.threshold ELSE Frac(3, 10),
     scorer |-> IF "scorer" \in DOMAIN options THEN options.scorer ELSE NoCallback]

\* the evaluator's body from the scorer's number on
onTopicResult(d, score) ==
    LET clampedScore == MathMax(Num(0), MathMin(Num(1), score))
        threshold == d.threshold
    IN  Result("onTopic", NumGe(clampedScore, threshold), clampedScore, threshold,
               "guardrail", d.severity,
               IF NumGe(clampedScore, threshold)
               THEN "Response is on-topic (score: " \o ToFixed2(clampedScore)
                    \o ", topic: \"" \o d.topic \o "\")"
               ELSE "Response appears off-topic (score: " \o ToFixed2(clampedScore)
                    \o ", required: " \o NumStr(threshold) \o ", topic: \""
                    \o d.topic \o "\")",
               [topic |-> d.topic,
                scoringMethod |-> IF d.scorer.kind # "none" THEN "custom" ELSE "keyword"])

-----------------------------------------------------------------------------
(* guardrails/toxicity.ts *)

TOXICITY_SIGNALS ==
    <<[pattern |-> "slur", weight |-> Num(1)],
      [pattern |-> "threat", weight |-> Frac(4, 5)],
      [pattern |-> "hostility", weight |-> Frac(3, 5)],
      [pattern |-> "insult", weight |-> Frac(3, 10)]>>

\* The patterns of TOXICITY_SIGNALS are RegExp objects created once, when the
\* module is loaded, with the g flag: each carries a lastIndex that every
\* evaluator invocation and every evaluate() call shares.  A position in the
\* response is counted here in matches passed.
SignalNames == {TOXICITY_SIGNALS[k].pattern : k \in DOMAIN TOXICITY_SIGNALS}

ZeroIndex == [p \in SignalNames |-> 0]

\* the response as an evaluator finds it, with the lastIndex of the signals
WithLastIndex(resp, li) ==
    [f \in DOMAIN resp \cup {"lastIndex"} |-> IF f = "lastIndex" THEN li ELSE resp[f]]

LastIndexOf(resp, pattern) ==
    IF "lastIndex" \in DOMAIN resp THEN resp.lastIndex[pattern] ELSE 0

\* mutant: pattern.exec(response), which starts at lastIndex, finds one match
\* and leaves lastIndex behind it
RegExpExec(n, li) ==
    [length |-> IF n > li THEN 1 ELSE 0, lastIndex |-> IF n > li THEN li + 1 ELSE 0]

\* response.match(pattern) for a pattern with the g flag, the response having
\* n matches: lastIndex is set to 0, every match is collected, and lastIndex
\* is 0 again when the search has run off the end
StringMatch(n, li) == [length |-> n, lastIndex |-> 0]

\* the for loop of keywordToxicityScore: <<maxWeight, totalSignals>>
RECURSIVE ScanSignals(_, _, _, _)
ScanSignals(signals, resp, maxWeight, totalSignals) ==
    IF signals = <<>> THEN <<maxWeight, totalSignals>>
    ELSE LET n == StringMatch(MatchCount(resp, Head(signals).pattern),
                              LastIndexOf(resp, Head(signals).pattern)).length
         IN  IF n > 0
             THEN ScanSignals(Tail(signals), resp,
                              MathMax(maxWeight, Head(signals).weight),
                              totalSignals + n)
             ELSE ScanSignals(Tail(signals), resp, maxWeight, totalSignals)

\* mutant: the volume boost without its cap of 0.2
keywordToxicityScoreUncappedBoost(resp) ==
    LET scan == ScanSignals(TOXICITY_SIGNALS, resp, Num(0), 0)
        maxWeight == scan[1]
        totalSignals == scan[2]
        volumeBoost == NumMul(Num(totalSignals), Frac(1, 20))
    IN  IF totalSignals = 0 THEN Num(0)
        ELSE MathMin(Num(1), NumAdd(maxWeight, volumeBoost))

keywordToxicityScore(resp) ==
    LET scan == ScanSignals(TOXICITY_SIGNALS, resp, Num(0), 0)
        maxWeight == scan[1]
        totalSignals == scan[2]
        volumeBoost == MathMin(Frac(1, 5), NumMul(Num(totalSignals), Frac(1, 20)))
    IN  IF totalSignals = 0 THEN Num(0)
        ELSE MathMin(Num(1), NumAdd(maxWeight, volumeBoost))

toxicity(options) ==
    [kind |-> "toxicity", fname |-> "",
     severity |-> SeverityOr(options, "error"),
     threshold |-> IF "threshold" \in DOMAIN options
                   THEN options.threshold ELSE Frac(1, 2),
     scorer |-> IF "scorer" \in DOMAIN options THEN options.scorer ELSE NoCallback]

\* the evaluator's body from the scorer's number on
toxicityResult(d, toxicityScore) ==
    LET clampedScore == MathMax(Num(0), MathMin(Num(1), toxicityScore))
        evaluationScore == NumSub(Num(1), clampedScore)
        threshold == d.threshold
        pass == NumLt(clampedScore, threshold)
    IN  Result("toxicity", pass, evaluationScore, NumSub(Num(1), threshold),
               "guardrail", d.severity,
               IF pass
               THEN "Toxicity score " \o ToFixed2(clampedScore)
                    \o " is below threshold of " \o NumStr(threshold)
               ELSE "Toxicity score " \o ToFixed2(clampedScore)
                    \o " exceeds threshold of " \o NumStr(threshold),
               [toxicityScore |-> clampedScore, threshold |-> threshold,
                scoringMethod |-> IF d.scorer.kind # "none" THEN "custom" ELSE "keyword"])

-----------------------------------------------------------------------------
(* guardrails/no-hallucinated-urls.ts *)

\* A match of urlPattern in the response: body is the match without its
\* trailing run of [.,;:!?)], trail is that run; parses and hostname are what
\* new URL(body) gives (hostname as its dot-separated labels)
UrlMatch(body, trail, parses, hostname) ==
    [body |-> body, trail |-> trail, parses |-> parses, hostname |-> hostname]

extractUrls(resp) ==
    [k \in 1..Len(resp.urlMatches) |->
       [url |-> resp.urlMatches[k].body,
        parses |-> resp.urlMatches[k].parses,
        hostname |-> resp.urlMatches[k].hostname]]

isStructurallyValid(u) == u.parses /\ Len(u.hostname) > 1

\* mutant: only the exact hostname is allowlisted, no subdomain
DomainMatchesExactly(hostname, domain) == hostname = domain

\* hostname === domain || hostname.endsWith(`.${domain}`)
DomainMatches(hostname, domain) ==
    \/ hostname = domain
    \/ /\ Len(domain) > 0
       /\ Len(hostname) > Len(domain)
       /\ SubSeq(hostname, Len(hostname) - Len(domain) + 1, Len(hostname)) = domain

\* mutant: the allowlist is not consulted
AllowlistIgnored(u, allowedDomains) == FALSE

Allowlisted(u, allowedDomains) ==
    u.parses /\ \E k \in DOMAIN allowedDomains : DomainMatches(u.hostname, allowedDomains[k])

\* a caller-supplied verifier: for each URL "reachable", "unreachable" or "throws"
Verifier(answers) == [kind |-> "verifier", answers |-> answers]

noHallucinatedUrls(options) ==
    [kind |-> "noHallucinatedUrls", fname |-> "",
     severity |-> SeverityOr(options, "error"),
     allowedDomains |-> IF "allowedDomains" \in DOMAIN options
                        THEN options.allowedDomains ELSE <<>>,
     verifier |-> IF "verifier" \in DOMAIN options THEN options.verifier ELSE NoCallback]

noUrlsResult(d) ==
    Result("noHallucinatedUrls", TRUE, Num(1), Num(1), "guardrail", d.severity,
           "No URLs found in response",
           [urlsFound |-> 0, checked |-> <<>>, flagged |-> <<>>,
            verificationEnabled |-> d.verifier.kind # "none"])

\* the evaluator's body after the for loop
urlsResult(d, urls, valid, flagged) ==
    LET pass == Len(flagged) = 0
        score == IF Len(urls) > 0 THEN NumDiv(Num(Len(valid)), Num(Len(urls)))
                 ELSE Num(1)
    IN  Result("noHallucinatedUrls", pass, score, Num(1), "guardrail", d.severity,
               IF pass
               THEN "All " \o ToString(Len(urls)) \o " URL(s) passed validation"
               ELSE ToString(Len(flagged)) \o " of " \o ToString(Len(urls))
                    \o " URL(s) flagged: "
                    \o JoinWith([k \in 1..Len(flagged) |->
                                   flagged[k].url \o " (" \o flagged[k].reason \o ")"],
                                ", "),
               [urlsFound |-> Len(urls), valid |-> valid, flagged |-> flagged,
                verificationEnabled |-> d.verifier.kind # "none"])

-----------------------------------------------------------------------------
(* The async body of one evaluator invocation.  st is "idle" (not invoked),  *)
(* "running" (a user-defined evaluator at work), "awaitCb" (a built-in       *)
(* suspended on its scorer or verifier), "settled" (its promise has          *)
(* settled with outcome) or "consumed" (the engine has taken the outcome);   *)
(* k, valid and flagged are the locals of noHallucinatedUrls' for loop.      *)

NoOutcome == [type |-> "none"]

Local(st, outcome, k, valid, flagged) ==
    [st |-> st, outcome |-> outcome, k |-> k, valid |-> valid, flagged |-> flagged]

Idle == Local("idle", NoOutcome, 0, <<>>, <<>>)
Settled(outcome) == Local("settled", outcome, 0, <<>>, <<>>)

\* the for loop over urls from index k, up to the next await or to the return
RECURSIVE urlLoop(_, _, _, _, _)
urlLoop(d, urls, k, valid, flagged) ==
    IF k > Len(urls)
    THEN Local("settled", Returned(urlsResult(d, urls, valid, flagged)), k, valid, flagged)
    ELSE IF Allowlisted(urls[k], d.allowedDomains)
    THEN urlLoop(d, urls, k + 1, Append(valid, urls[k].url), flagged)
    ELSE IF ~isStructurallyValid(urls[k])
    THEN urlLoop(d, urls, k + 1, valid,
                 Append(flagged, [url |-> urls[k].url, reason |-> "malformed URL"]))
    ELSE IF d.verifier.kind # "none"
    THEN Local("awaitCb", NoOutcome, k, valid, flagged)
    ELSE urlLoop(d, urls, k + 1, Append(valid, urls[k].url), flagged)

\* mutant: await verifier(url) without the try/catch around it
urlLoopResumeUncaught(d, urls, local, answer) ==
    LET k == local.k
    IN  IF answer = "throws"
        THEN Local("settled", Threw(ErrorObj("verifier failed")), k,
                   local.valid, local.flagged)
        ELSE IF answer = "unreachable"
        THEN urlLoop(d, urls, k + 1, local.valid,
                     Append(local.flagged, [url |-> urls[k].url, reason |-> "unreachable"]))
        ELSE urlLoop(d, urls, k + 1, Append(local.valid, urls[k].url), local.flagged)

\* the loop resumed when the verifier's promise for urls[k] has settled
urlLoopResume(d, urls, local, answer) ==
    LET k == local.k
    IN  IF answer = "throws"
        THEN urlLoop(d, urls, k + 1, local.valid,
                     Append(local.flagged,
                            [url |-> urls[k].url, reason |-> "verification failed"]))
        ELSE IF answer = "unreachable"
        THEN urlLoop(d, urls, k + 1, local.valid,
                     Append(local.flagged, [url |-> urls[k].url, reason |-> "unreachable"]))
        ELSE urlLoop(d, urls, k + 1, Append(local.valid, urls[k].url), local.flagged)

\* a user-defined evaluator, by its name and how its promise settles
customEvaluator(fname, outcome) ==
    [kind |-> "custom", fname |-> fname, outcome |-> outcome]

\* lastIndex of the signals once evaluator d has been called: only toxicity
\* without a scorer runs keywordToxicityScore
lastIndexAfter(d, resp, li) ==
    IF d.kind = "toxicity" /\ d.scorer.kind = "none"
    THEN [p \in SignalNames |-> StringMatch(MatchCount(resp, p), li[p]).lastIndex]
    ELSE li

\* evaluator(response, context): the body up to its first await or its end
startEvaluator(d, resp) ==
    CASE d.kind = "maxLength" -> Settled(Returned(maxLengthEvaluator(d, resp)))
      [] d.kind = "minLength" -> Settled(Returned(minLengthEvaluator(d, resp)))
      [] d.kind = "requiredFields" -> Settled(Returned(requiredFieldsEvaluator(d, resp)))
      [] d.kind = "jsonSchema" -> Settled(Returned(jsonSchemaEvaluator(d, resp)))
      [] d.kind = "noPersonalData" -> Settled(Returned(noPersonalDataEvaluator(d, resp)))
      [] d.kind = "onTopic" ->
            IF d.scorer.kind # "none" THEN Local("awaitCb", NoOutcome, 0, <<>>, <<>>)
            ELSE Settled(Returned(onTopicResult(d, keywordScore(resp, d.topic))))
      [] d.kind = "toxicity" ->
            IF d.scorer.kind # "none" THEN Local("awaitCb", NoOutcome, 0, <<>>, <<>>)
            ELSE Settled(Returned(toxicityResult(d, keywordToxicityScore(resp))))
      [] d.kind = "noHallucinatedUrls" ->
            IF Len(extractUrls(resp)) = 0 THEN Settled(Returned(noUrlsResult(d)))
            ELSE urlLoop(d, extractUrls(resp), 1, <<>>, <<>>)
      [] OTHER -> Local("running", NoOutcome, 0, <<>>, <<>>)

\* mutant: the evaluator swallows its scorer's error and scores 0
scorerResumeSwallowing(d) ==
    LET v == IF d.scorer.kind = "throws" THEN Num(0) ELSE d.scorer.value
    IN  IF d.kind = "onTopic" THEN Settled(Returned(onTopicResult(d, v)))
        ELSE Settled(Returned(toxicityResult(d, v)))

\* the body of onTopic or toxicity resumed when the scorer's promise settled
scorerResume(d) ==
    IF d.scorer.kind = "throws" THEN Settled(Threw(d.scorer.error))
    ELSE IF d.kind = "onTopic"
    THEN Settled(Returned(onTopicResult(d, d.scorer.value)))
    ELSE Settled(Returned(toxicityResult(d, d.scorer.value)))

-----------------------------------------------------------------------------
(* evaluate.ts: runEvaluators *)

\* const { evaluators, context, stopOnFirstFailure = false } = config
StopOnFirstFailure(cfg) ==
    IF "stopOnFirstFailure" \in DOMAIN cfg THEN cfg.stopOnFirstFailure ELSE FALSE

\* String(err)
StringOf(err) == IF err.type = "string" THEN err.str ELSE NumStr(err.num)

\* mutant: the synthesized result has no fallback for an unnamed evaluator
runtimeErrorResultNoFallback(d, err) ==
    Result("Runtime Error: " \o d.fname, FALSE, Num(0), Num(0), "structural", "error",
           IF err.type = "Error" THEN err.message ELSE StringOf(err), NoMetadata)

\* the result synthesized in the catch block
runtimeErrorResult(d, err) ==
    LET evaluatorName == IF d.fname # "" THEN d.fname ELSE "Anonymous Evaluator"
    IN  Result("Runtime Error: " \o evaluatorName, FALSE, Num(0), Num(0),
               "structural", "error",
               IF err.type = "Error" THEN err.message ELSE StringOf(err),
               NoMetadata)

\* mutant: the break ignores the severity
breakAfterAnyFailure(stop, result) == stop /\ ~result.pass

\* if (stopOnFirstFailure && !result.pass && result.severity === 'error') break
breakAfterResult(stop, result) == stop /\ ~result.pass /\ result.severity = "error"

\* if (stopOnFirstFailure) break, in the catch block
breakAfterThrow(stop) == stop

\* mutant: results.unshift(result)
unshift(rs, r) == <<r>> \o rs

\* results.push(result)
push(rs, r) == Append(rs, r)

\* catch (err): whatever the evaluator threw is caught
catches(err) == TRUE

\* mutant: the evaluators are started without awaiting the previous one
canInvokeWithoutAwait == pc \in {"loop", "await"} /\ next <= Len(config.evaluators)

\* the for-of loop may call the next evaluator: the previous await is over
canInvoke == pc = "loop" /\ next <= Len(config.evaluators)

Event(op, i, arg) == [op |-> op, i |-> i, arg |-> arg]

\* the verifier is called with urls[k] when the body stops at "awaitCb"
CallEvents(i, d, local) ==
    IF local.st # "awaitCb" THEN <<>>
    ELSE IF d.kind = "noHallucinatedUrls"
    THEN <<Event("call", i, extractUrls(response)[local.k].url)>>
    ELSE <<Event("call", i, "scorer")>>

SettleEvents(i, local) ==
    IF local.st = "settled" THEN <<Event("settle", i, local.outcome.type)>> ELSE <<>>

\* line 9: evaluator(response, context) is called and the loop awaits it
Invoke ==
    /\ canInvoke
    /\ LET i == next
           local == startEvaluator(config.evaluators[i],
                                   WithLastIndex(response, lastIndex))
       IN  /\ ev' = [ev EXCEPT ![i] = local]
           /\ lastIndex' = lastIndexAfter(config.evaluators[i], response, lastIndex)
           /\ cur' = i
           /\ log' = log \o <<Event("invoke", i, config.evaluators[i].kind)>>
                         \o CallEvents(i, config.evaluators[i], local)
                         \o SettleEvents(i, local)
    /\ next' = next + 1
    /\ pc' = "await"
    /\ UNCHANGED <<response, config, results, report, other>>

\* the scorer's promise settles and the body of onTopic / toxicity goes on
ScorerSettles ==
    \E i \in DOMAIN ev :
        /\ ev[i].st = "awaitCb"
        /\ config.evaluators[i].kind \in {"onTopic", "toxicity"}
        /\ LET local == scorerResume(config.evaluators[i])
           IN  /\ ev' = [ev EXCEPT ![i] = local]
               /\ log' = log \o SettleEvents(i, local)
        /\ UNCHANGED <<response, config, pc, next, cur, results, report, lastIndex, other>>

\* the verifier's promise settles and the loop of noHallucinatedUrls goes on
VerifierSettles ==
    \E i \in DOMAIN ev :
        /\ ev[i].st = "awaitCb"
        /\ config.evaluators[i].kind = "noHallucinatedUrls"
        /\ LET d == config.evaluators[i]
               urls == extractUrls(response)
               local == urlLoopResume(d, urls, ev[i],
                                      d.verifier.answers[urls[ev[i].k].url])
           IN  /\ ev' = [ev EXCEPT ![i] = local]
               /\ log' = log \o CallEvents(i, d, local) \o SettleEvents(i, local)
        /\ UNCHANGED <<response, config, pc, next, cur, results, report, lastIndex, other>>

\* the promise of a user-defined evaluator settles
CustomSettles ==
    \E i \in DOMAIN ev :
        /\ ev[i].st = "running"
        /\ LET local == Settled(config.evaluators[i].outcome)
           IN  /\ ev' = [ev EXCEPT ![i] = local]
               /\ log' = log \o SettleEvents(i, local)
        /\ UNCHANGED <<response, config, pc, next, cur, results, report, lastIndex, other>>

\* lines 10-15 and 16-28: the loop body after the await
Resume ==
    /\ pc = "await"
    /\ ev[cur].st = "settled"
    /\ LET outcome == ev[cur].outcome
           stop == StopOnFirstFailure(config)
           result == IF outcome.type = "return" THEN outcome.value
                     ELSE runtimeErrorResult(config.evaluators[cur], outcome.error)
           break == IF outcome.type = "return" THEN breakAfterResult(stop, result)
                    ELSE breakAfterThrow(stop)
       IN  IF outcome.type = "throw" /\ ~catches(outcome.error)
           THEN /\ results' = results
                /\ pc' = "raised"
           ELSE /\ results' = push(results, result)
                /\ pc' = IF break THEN "return" ELSE "loop"
    /\ ev' = [ev EXCEPT ![cur].st = "consumed"]
    /\ log' = Append(log, Event("push", cur, ""))
    /\ UNCHANGED <<response, config, next, cur, report, lastIndex, other>>

\* mutant: the loop gives up on an evaluator that has not settled
LoopEndOnTimeout ==
    /\ \/ pc = "loop" /\ next > Len(config.evaluators)
       \/ pc = "await" /\ ev[cur].st \in {"running", "awaitCb"}
    /\ pc' = "return"
    /\ UNCHANGED <<response, config, next, cur, ev, results, report, log, lastIndex, other>>

\* the loop is over: return results
LoopEnd ==
    /\ pc = "loop"
    /\ next > Len(config.evaluators)
    /\ pc' = "return"
    /\ UNCHANGED <<response, config, next, cur, ev, results, report, log, lastIndex, other>>

-----------------------------------------------------------------------------
(* evaluate.ts: evaluate *)

\* mutant: any failing result counts, whatever its severity
isCriticalFailureAnySeverity(r) == ~r.pass

isCriticalFailure(r) == ~r.pass /\ r.severity = "error"

\* mutant: the severity tally counts failing results only
reducerTallyingFailures(acc, r) ==
    [total |-> acc.total + 1,
     passed |-> IF r.pass THEN acc.passed + 1 ELSE acc.passed,
     bySeverity |-> IF r.pass THEN acc.bySeverity
                    ELSE [acc.bySeverity EXCEPT ![r.severity] = @ + 1],
     scoreSum |-> NumAdd(acc.scoreSum, r.score),
     hasCriticalFailure |-> acc.hasCriticalFailure \/ (~r.pass /\ r.severity = "error")]

\* the reducer of results.reduce
reducer(acc, r) ==
    [total |-> acc.total + 1,
     passed |-> IF r.pass THEN acc.passed + 1 ELSE acc.passed,
     bySeverity |-> [acc.bySeverity EXCEPT ![r.severity] = @ + 1],
     scoreSum |-> NumAdd(acc.scoreSum, r.score),
     hasCriticalFailure |-> acc.hasCriticalFailure \/ isCriticalFailure(r)]

\* mutant: the accumulator starts as if an error-severity failure had been seen
initialSummaryFailing ==
    [total |-> 0, passed |-> 0, scoreSum |-> Num(0), hasCriticalFailure |-> TRUE,
     bySeverity |-> [s \in Severity |-> 0]]

initialSummary ==
    [total |-> 0, passed |-> 0, scoreSum |-> Num(0), hasCriticalFailure |-> FALSE,
     bySeverity |-> [s \in Severity |-> 0]]

RECURSIVE reduce(_, _)
reduce(rs, acc) == IF rs = <<>> THEN acc ELSE reduce(Tail(rs), reducer(acc, Head(rs)))

\* mutant: the mean without the guard for an empty results array
overallScoreUnguarded(summary) == NumDiv(summary.scoreSum, Num(summary.total))

overallScoreOf(summary) ==
    IF summary.total > 0 THEN NumDiv(summary.scoreSum, Num(summary.total)) ELSE Num(0)

failedOf(summary) == summary.total - summary.passed

\* the report; its timestamp (the wall clock) is left out
makeReport(testName, rs) ==
    LET summary == reduce(rs, initialSummary)
    IN  [testName |-> testName,
         overallScore |-> overallScoreOf(summary),
         overallPass |-> ~summary.hasCriticalFailure,
         results |-> rs,
         summary |-> [total |-> summary.total, passed |-> summary.passed,
                      failed |-> failedOf(summary),
                      bySeverity |-> summary.bySeverity]]

NoReport == [none |-> TRUE]

\* no second evaluate() call has been made
NoCall == [call |-> "none"]

\* lines 39-71: runEvaluators has returned; reduce and return the report
Return ==
    /\ pc = "return"
    /\ report' = makeReport(config.testName, results)
    /\ pc' = "done"
    /\ UNCHANGED <<response, config, next, cur, ev, results, log, lastIndex, other>>

-----------------------------------------------------------------------------
(* The responses and the evaluators evaluate() is run on *)

Response(text, json, matches, urlMatches) ==
    [text |-> text, json |-> json, matches |-> matches, urlMatches |-> urlMatches]

NoMatches == [p \in {} |-> 0]

JsonText == "{\"a\":1}"

ProseText == "idiot me@x.io http://x.io, https://a.dev/p http://localhost."

JsonResponse == Response(JsonText, JsonObject({"a"}), NoMatches, <<>>)

ProseResponse ==
    Response(ProseText, JsonInvalid,
             [p \in {"email", "insult"} |-> 1],
             <<UrlMatch("http://x.io", ",", TRUE, <<"x", "io">>),
               UrlMatch("https://a.dev/p", "", TRUE, <<"a", "dev">>),
               UrlMatch("http://localhost", ".", TRUE, <<"localhost">>)>>)

ResponsePool == {JsonResponse, ProseResponse}

TopicText == "Q3 earnings"

NoOptions == [o \in {} |-> 0]

FlakyVerifier ==
    Verifier([u \in {"http://x.io", "https://a.dev/p", "http://localhost"} |->
                IF u = "http://x.io" THEN "throws"
                ELSE IF u = "https://a.dev/p" THEN "unreachable" ELSE "reachable"])

EvaluatorPool ==
    {maxLength(Num(10), NoOptions),
     minLength(Num(20), [severity |-> "warning"]),
     requiredFields(<<"a", "b">>, [severity |-> "info"]),
     onTopic(TopicText, [scorer |-> ScorerThrows(ErrorObj("embedding service down"))]),
     toxicity([scorer |-> ScorerReturns(Frac(9, 10))]),
     toxicity([severity |-> "warning", scorer |-> ScorerThrows(ThrownString("timeout"))]),
     noHallucinatedUrls([verifier |-> FlakyVerifier]),
     customEvaluator("noApologies", Threw(ErrorObj("boom"))),
     customEvaluator("", Threw(ThrownNumber(Num(404)))),
     customEvaluator("lenient",
                     Returned(Result("lenient", TRUE, Num(2), Num(1), "semantic",
                                     "error", "over the top", NoMetadata)))}

SeqsUpTo(S, n) == UNION {[1..k -> S] : k \in 0..n}

Configs ==
    {[testName |-> "t", evaluators |-> es] : es \in SeqsUpTo(EvaluatorPool, MaxEvaluators)}
    \cup {[testName |-> "t", evaluators |-> es, stopOnFirstFailure |-> b] :
            es \in SeqsUpTo(EvaluatorPool, MaxEvaluators), b \in BOOLEAN}

InitRun ==
    /\ pc = "loop"
    /\ next = 1
    /\ cur = 0
    /\ ev = [i \in 1..Len(config.evaluators) |-> Idle]
    /\ results = <<>>
    /\ report = NoReport
    /\ log = <<>>
    /\ lastIndex = ZeroIndex

Init ==
    /\ response \in ResponsePool
    /\ config \in Configs
    /\ InitRun
    /\ other = NoCall

Next ==
    \/ Invoke
    \/ ScorerSettles
    \/ VerifierSettles
    \/ CustomSettles
    \/ Resume
    \/ LoopEnd
    \/ Return

Spec == Init /\ [][Next]_vars

-----------------------------------------------------------------------------
(* evaluate() with callbacks that may hang.  The steps of the engine and of  *)
(* the built-in evaluators' own code are taken when they can be (the event   *)
(* loop runs a continuation that is ready); nothing makes the promise of a   *)
(* scorer, a verifier or a user-defined evaluator settle.                    *)

HangingPool ==
    {minLength(Num(20), [severity |-> "warning"]),
     toxicity([scorer |-> ScorerReturns(Frac(9, 10))]),
     noHallucinatedUrls([verifier |-> FlakyVerifier]),
     customEvaluator("noApologies", Threw(ErrorObj("boom")))}

InitHanging ==
    /\ response \in ResponsePool
    /\ config \in
           {[testName |-> "t", evaluators |-> es] :
               es \in SeqsUpTo(HangingPool, MaxEvaluators)}
           \cup {[testName |-> "t", evaluators |-> es, stopOnFirstFailure |-> TRUE] :
                   es \in SeqsUpTo(HangingPool, MaxEvaluators)}
    /\ InitRun
    /\ other = NoCall

\* The step Return takes, seen on pc alone: Return is the only action that
\* leaves pc = "return", and it is enabled whenever pc = "return".
Returning == pc = "return" /\ pc' = "done"

SpecHanging ==
    /\ InitHanging
    /\ [][Next]_vars
    /\ WF_vars(Invoke)
    /\ WF_vars(Resume)
    /\ WF_vars(LoopEnd)
    /\ WF_pc(Returning)

-----------------------------------------------------------------------------
(* Two evaluate() calls made one after the other without awaiting the first, *)
(* as in Promise.all([evaluate(r1, c1), evaluate(r2, c2)]).  JavaScript runs *)
(* one of them at a time and changes over only where the running one is     *)
(* suspended at an await.  The variables response .. log are those of the    *)
(* call that is running; other keeps the suspended one.                      *)

\* the frame of the running call, to be kept under the given number
Call(id) ==
    [id |-> id, response |-> response, config |-> config, pc |-> pc, next |-> next,
     cur |-> cur, ev |-> ev, results |-> results, report |-> report, log |-> log]

\* the frame of a call that has not run yet
NotStarted(id, resp, cfg) ==
    [id |-> id, response |-> resp, config |-> cfg, pc |-> "loop", next |-> 1,
     cur |-> 0, ev |-> [i \in 1..Len(cfg.evaluators) |-> Idle], results |-> <<>>,
     report |-> NoReport, log |-> <<>>]

\* the running call is at await evaluator(...) (line 9), at
\* await runEvaluators(...) (line 39), or has ended
Suspended == pc \in {"await", "return", "done", "raised"}

\* the event loop goes over to the other call
Switch ==
    /\ other # NoCall
    /\ Suspended
    /\ other.pc \notin {"done", "raised"}
    /\ other' = Call(3 - other.id)
    /\ response' = other.response
    /\ config' = other.config
    /\ pc' = other.pc
    /\ next' = other.next
    /\ cur' = other.cur
    /\ ev' = other.ev
    /\ results' = other.results
    /\ report' = other.report
    /\ log' = other.log
    /\ UNCHANGED lastIndex

PairPool ==
    {toxicity(NoOptions),
     toxicity([severity |-> "warning", scorer |-> ScorerReturns(Frac(9, 10))]),
     noHallucinatedUrls([verifier |-> FlakyVerifier]),
     customEvaluator("noApologies", Threw(ErrorObj("boom")))}

\* the first call: any list, with or without stopOnFirstFailure
PairConfigs ==
    {[testName |-> "t", evaluators |-> es] : es \in SeqsUpTo(PairPool, MaxEvaluators - 1)}
    \cup {[testName |-> "t", evaluators |-> es, stopOnFirstFailure |-> TRUE] :
            es \in SeqsUpTo(PairPool, MaxEvaluators - 1)}

\* the second call, without stopOnFirstFailure, is given the list of the first
\* or at most one evaluator, and either response
InitPair ==
    /\ response \in ResponsePool
    /\ config \in PairConfigs
    /\ InitRun
    /\ other \in {NotStarted(2, r, [testName |-> "t", evaluators |-> es]) :
                    r \in ResponsePool,
                    es \in {config.evaluators} \cup SeqsUpTo(PairPool, 1)}

NextPair ==
    \/ Invoke
    \/ ScorerSettles
    \/ VerifierSettles
    \/ CustomSettles
    \/ Resume
    \/ LoopEnd
    \/ Return
    \/ Switch

SpecPair == InitPair /\ [][NextPair]_vars

-----------------------------------------------------------------------------
(* One built-in evaluator run by evaluate() over a wider range of            *)
(* configurations and responses                                              *)

MaxLimit == 3

EmptyResponse == Response("", JsonInvalid, NoMatches, <<>>)
ArrayResponse == Response("[1]", JsonArray, NoMatches, <<>>)
NullResponse == Response("null", JsonNull, NoMatches, <<>>)
PrimitiveResponse == Response("42", JsonPrimitive, NoMatches, <<>>)
ObjectResponse == Response("{\"a\":null,\"b\":0}", JsonObject({"a", "b"}), NoMatches, <<>>)
ToxicResponse ==
    Response("I will kill you, you stupid idiot", JsonInvalid,
             [p \in {"threat", "insult"} |-> IF p = "threat" THEN 1 ELSE 2], <<>>)
PiiResponse ==
    Response("call 555-123-4567 or 10.0.0.1", JsonInvalid,
             [p \in {"phone", "ipAddress"} |-> 1], <<>>)

RantResponse ==
    Response("stupid dumb idiot moron useless", JsonInvalid,
             [p \in {"insult"} |-> 5], <<>>)
SlurResponse ==
    Response("slur_placeholder, I hate you", JsonInvalid,
             [p \in {"slur", "hostility"} |-> 1], <<>>)

BuiltInResponses ==
    ResponsePool \cup {EmptyResponse, ArrayResponse, NullResponse, PrimitiveResponse,
                       ObjectResponse, ToxicResponse, PiiResponse, RantResponse,
                       SlurResponse}

SeverityOptions == {NoOptions} \cup {[severity |-> s] : s \in Severity}

\* the numbers a limit, a minimum or a threshold is drawn from
Limits == {Num(l) : l \in -MaxLimit..MaxLimit} \cup {Frac(5, 2), NaN}
Thresholds == {Num(0), Frac(3, 10), Frac(1, 2), Num(1), Frac(3, 2)}

\* the numbers a scorer answers
ScorerValues == {Frac(-1, 2), Num(0), Frac(3, 10), Frac(1, 2), Num(1), Frac(3, 2),
                 PosInf, NaN}

Scorers ==
    {ScorerReturns(v) : v \in ScorerValues}
    \cup {ScorerThrows(ErrorObj("embedding service down"))}

ScorerOptions ==
    {NoOptions} \cup {[threshold |-> t] : t \in Thresholds}
    \cup {[scorer |-> c] : c \in Scorers}
    \cup {[threshold |-> t, scorer |-> c, severity |-> "info"] :
            t \in Thresholds, c \in Scorers}

ReachableVerifier ==
    Verifier([u \in {"http://x.io", "https://a.dev/p", "http://localhost"} |->
                "reachable"])

UrlOptions ==
    {o1 @@ o2 @@ o3 :
        o1 \in {NoOptions, [severity |-> "warning"]},
        o2 \in {NoOptions, [allowedDomains |-> <<<<"x", "io">>>>],
                [allowedDomains |-> <<<<"dev">>, <<"localhost">>>>]},
        o3 \in {NoOptions, [verifier |-> FlakyVerifier],
                [verifier |-> ReachableVerifier]}}

PiiOptions ==
    {o1 @@ o2 @@ o3 :
        o1 \in {NoOptions, [severity |-> "warning"]},
        o2 \in {NoOptions, [exclude |-> <<"email">>],
                [exclude |-> <<"email", "phone", "ssn", "creditCard", "ipAddress">>]},
        o3 \in {NoOptions,
                [customPatterns |-> <<Pattern("insults", "insult", TRUE, 0)>>],
                [customPatterns |-> <<Pattern("insults", "insult", FALSE, 1)>>],
                [customPatterns |-> <<Pattern("threats", "threat", FALSE, 2),
                                      Pattern("insults", "insult", TRUE, 0)>>]}}

BuiltInPool ==
    {maxLength(l, o) : l \in Limits, o \in SeverityOptions}
    \cup {minLength(l, o) : l \in Limits, o \in SeverityOptions}
    \cup {requiredFields(fs, o) :
            fs \in {<<>>, <<"a">>, <<"a", "b">>, <<"a", "a", "c">>, <<"toString">>},
            o \in SeverityOptions}
    \cup {jsonSchema([required |-> Range(fs), order |-> fs], o) :
            fs \in {<<>>, <<"a">>, <<"b", "c">>}, o \in SeverityOptions}
    \cup {noPersonalData(o) : o \in PiiOptions}
    \cup {onTopic(t, o) : t \in {"", "is it", TopicText, "idiot docs x.io"}, o \in ScorerOptions}
    \cup {toxicity(o) : o \in ScorerOptions}
    \cup {noHallucinatedUrls(o) : o \in UrlOptions}

InitBuiltIn ==
    /\ response \in BuiltInResponses
    /\ config \in {[testName |-> "t", evaluators |-> <<d>>] : d \in BuiltInPool}
    /\ InitRun
    /\ other = NoCall

NextBuiltIn ==
    \/ Invoke
    \/ ScorerSettles
    \/ VerifierSettles
    \/ Resume
    \/ LoopEnd
    \/ Return

SpecBuiltIn == InitBuiltIn /\ [][NextBuiltIn]_vars

-----------------------------------------------------------------------------
(* Properties of the orchestration engine *)

NumEvaluators == Len(config.evaluators)
Finished == pc \in {"return", "done"}

\* evaluator k settled with an error-severity failure, returned or thrown
Fatal(k) ==
    \/ ev[k].outcome.type = "throw"
    \/ /\ ev[k].outcome.type = "return"
       /\ ~ev[k].outcome.value.pass
       /\ ev[k].outcome.value.severity = "error"

\* how many events of the log are op for evaluator i
Count(op, i) == Cardinality({k \in DOMAIN log : log[k].op = op /\ log[k].i = i})

\* C1: in a returned report, overallPass is false exactly when some entry of
\* results has severity "error" and pass false; failing warning or info
\* entries never make it false.
C1_OverallPass ==
    report # NoReport =>
        (report.overallPass = FALSE
            <=> \E k \in DOMAIN report.results :
                    /\ report.results[k].severity = "error"
                    /\ report.results[k].pass = FALSE)

\* a report that passes although a warning entry and an info entry failed
C1_Witness ==
    /\ report # NoReport
    /\ report.overallPass
    /\ \E k \in DOMAIN report.results :
           report.results[k].severity = "warning" /\ ~report.results[k].pass
    /\ \E k \in DOMAIN report.results :
           report.results[k].severity = "info" /\ ~report.results[k].pass

\* C2: with stopOnFirstFailure true the run stops at the first evaluator that
\* settles with an error-severity failure (returned, or thrown and
\* synthesized): results ends with that entry, the earlier entries are kept
\* and no later evaluator is invoked, while a failing warning or info result
\* does not stop it; with stopOnFirstFailure false or absent every evaluator
\* is invoked and gives exactly one entry.
C2_StopOnFirstFailure ==
    /\ StopOnFirstFailure(config) =>
           \A k \in DOMAIN results :
               Fatal(k) =>
                   /\ Len(results) = k
                   /\ Finished
                   /\ ~results[k].pass /\ results[k].severity = "error"
                   /\ \A j \in 1..NumEvaluators :
                          j > k => ev[j].st = "idle" /\ Count("invoke", j) = 0
    /\ Finished =>
           /\ \A k \in DOMAIN results : Count("invoke", k) = 1 /\ Count("push", k) = 1
           /\ \/ Len(results) = NumEvaluators
              \/ /\ StopOnFirstFailure(config)
                 /\ Len(results) \in 1..NumEvaluators
                 /\ Fatal(Len(results))
    /\ (Finished /\ ~StopOnFirstFailure(config)) => Len(results) = NumEvaluators

\* a stopped run: a failing warning entry is kept, the error-severity failure
\* after it ends results, and the third evaluator is never invoked
C2_Witness ==
    /\ pc = "done"
    /\ StopOnFirstFailure(config)
    /\ NumEvaluators = 3
    /\ Len(results) = 2
    /\ ~results[1].pass /\ results[1].severity = "warning"
    /\ ~results[2].pass /\ results[2].severity = "error"
    /\ ev[3].st = "idle"

\* C3: an evaluator that throws never makes evaluate() raise; it gives exactly
\* one result named "Runtime Error: " and its name ("Anonymous Evaluator"
\* without one), pass false, score 0, threshold 0, category structural,
\* severity error, details the error's message; without stopOnFirstFailure
\* the evaluators after it are still run.
C3_ThrowIsolated ==
    /\ pc # "raised"
    /\ \A k \in DOMAIN results :
           ev[k].outcome.type = "throw" =>
               LET d == config.evaluators[k]
                   err == ev[k].outcome.error
               IN  /\ results[k].name =
                          (IF d.fname = "" THEN "Runtime Error: Anonymous Evaluator"
                           ELSE "Runtime Error: " \o d.fname)
                   /\ results[k].pass = FALSE
                   /\ results[k].score = Num(0)
                   /\ results[k].threshold = Num(0)
                   /\ results[k].category = "structural"
                   /\ results[k].severity = "error"
                   /\ err.type = "Error" => results[k].details = err.message
                   /\ err.type = "string" => results[k].details = err.str
                   /\ err = ThrownNumber(Num(404)) => results[k].details = "404"
                   /\ Count("push", k) = 1
                   /\ (Finished /\ ~StopOnFirstFailure(config) /\ k < NumEvaluators)
                          => ev[k + 1].st = "consumed" /\ Len(results) > k
    /\ \A k \in 1..NumEvaluators :
           (ev[k].outcome.type = "throw" /\ ev[k].st = "consumed") => k \in DOMAIN results

\* an unnamed evaluator threw in the middle of a run that went on to the end
C3_Witness ==
    /\ pc = "done"
    /\ Len(results) = 3
    /\ ev[2].outcome.type = "throw"
    /\ config.evaluators[2].fname = ""
    /\ results[2].name = "Runtime Error: Anonymous Evaluator"
    /\ report.results = results

RECURSIVE SumScores(_, _)
SumScores(rs, k) == IF k = 0 THEN Num(0) ELSE NumAdd(SumScores(rs, k - 1), rs[k].score)

\* C4: in a returned report, overallScore is the sum of the scores divided by
\* results.length, and 0 when results is empty.
C4_OverallScore ==
    report # NoReport =>
        IF Len(report.results) = 0 THEN report.overallScore = Num(0)
        ELSE /\ IsFinite(report.overallScore)
             /\ NumMul(report.overallScore, Num(Len(report.results)))
                    = SumScores(report.results, Len(report.results))

\* a report over three entries whose mean is not a whole number
C4_Witness ==
    /\ report # NoReport
    /\ Len(report.results) = 3
    /\ report.overallScore[2] > 1

CountWhere(rs, P(_)) == Cardinality({k \in DOMAIN rs : P(rs[k])})

\* C5: in a returned report, summary.total is results.length, summary.passed
\* the number of passing entries, passed + failed = total, and bySeverity[s]
\* the number of entries of severity s, for each of the three severities.
C5_Summary ==
    report # NoReport =>
        LET rs == report.results
            sm == report.summary
        IN  /\ sm.total = Len(rs)
            /\ sm.passed = CountWhere(rs, LAMBDA r : r.pass)
            /\ sm.passed + sm.failed = sm.total
            /\ \A s \in Severity : sm.bySeverity[s] = CountWhere(rs, LAMBDA r : r.severity = s)
            /\ sm.bySeverity["error"] + sm.bySeverity["warning"] + sm.bySeverity["info"]
                   = sm.total

\* a report with passing and failing entries and all three severities
C5_Witness ==
    /\ report # NoReport
    /\ report.summary.passed >= 1
    /\ report.summary.failed >= 1
    /\ \A s \in Severity : report.summary.bySeverity[s] = 1
    /\ \E k \in DOMAIN report.results :
           report.results[k].pass /\ report.results[k].severity # "error"

\* what evaluator k contributed: its result, or the synthesized one
EntryOf(k) ==
    IF ev[k].outcome.type = "return" THEN ev[k].outcome.value
    ELSE runtimeErrorResult(config.evaluators[k], ev[k].outcome.error)

IsPrefix(a, b) == Len(a) <= Len(b) /\ SubSeq(b, 1, Len(a)) = a

\* C6: results is in invocation order, the order of config.evaluators:
\* results[i] is the entry of evaluators[i]; an entry once appended is never
\* reordered, dropped, duplicated or modified, and the report carries results
\* as it stands.
C6_ResultOrder ==
    /\ [](/\ Len(results) <= NumEvaluators
          /\ \A k \in DOMAIN results :
                 /\ ev[k].st = "consumed"
                 /\ results[k] = EntryOf(k)
                 /\ results[k].name \in
                        {config.evaluators[k].kind, config.evaluators[k].fname,
                         "Runtime Error: Anonymous Evaluator",
                         "Runtime Error: " \o config.evaluators[k].fname}
          /\ report # NoReport => report.results = results)
    /\ [][IsPrefix(results, results') /\ Len(results') <= Len(results) + 1]_vars

\* three different evaluators gave three entries, in the order of the list
C6_Witness ==
    /\ pc = "done"
    /\ Len(results) = 3
    /\ results[1].name = "minLength"
    /\ results[2].name = "Runtime Error: noApologies"
    /\ results[3].name = "toxicity"

InProgress(k) == ev[k].st \in {"running", "awaitCb"}

\* C7: within one evaluate() call the evaluators run one at a time: evaluator
\* i+1 is not invoked before the invocation of evaluator i has settled and
\* been taken, so never are two in progress, also while one is suspended on
\* its scorer or verifier.
C7_Sequential ==
    /\ \A i, j \in 1..NumEvaluators : (InProgress(i) /\ InProgress(j)) => i = j
    /\ \A i, j \in 1..NumEvaluators :
           (i < j /\ ev[j].st # "idle") => ev[i].st = "consumed"
    /\ \A i \in 1..NumEvaluators : InProgress(i) => (pc = "await" /\ cur = i)

\* the second evaluator is suspended on its callback: the first is done with,
\* the third not started
C7_Witness ==
    /\ NumEvaluators = 3
    /\ ev[1].st = "consumed"
    /\ ev[2].st = "awaitCb"
    /\ ev[3].st = "idle"
    /\ Count("call", 2) >= 1

InUnitRange(a) == NumLe(Num(0), a) /\ NumLe(a, Num(1))

\* C8: every result returned by a built-in evaluator, for every configuration
\* its factory accepts and every response, has 0 <= score <= 1.
C8_BuiltInScoreInRange ==
    \A k \in 1..NumEvaluators :
        ev[k].outcome.type = "return" => InUnitRange(ev[k].outcome.value.score)

\* C9: in a returned report, whatever evaluators were supplied, every
\* results[i].score and overallScore lie between 0 and 1.
C9_ReportScoresInRange ==
    report # NoReport =>
        /\ \A k \in DOMAIN report.results : InUnitRange(report.results[k].score)
        /\ InUnitRange(report.overallScore)

\* the scorer of evaluator k was called and threw
ScorerThrew(k) ==
    /\ config.evaluators[k].kind \in {"onTopic", "toxicity"}
    /\ config.evaluators[k].scorer.kind = "throws"
    /\ Count("call", k) >= 1

\* the URLs for which the verifier of evaluator k was called and threw
VerifierThrewFor(k) ==
    IF config.evaluators[k].kind # "noHallucinatedUrls" THEN {}
    ELSE {log[e].arg : e \in {x \in DOMAIN log :
                                 /\ log[x].op = "call" /\ log[x].i = k
                                 /\ config.evaluators[k].verifier.answers[log[x].arg]
                                        = "throws"}}

\* the synthesized entry: pass false, score 0, error, named "Runtime Error: ..."
IsSynthetic(r) ==
    /\ Len(r.name) >= 15 /\ SubSeq(r.name, 1, 15) = "Runtime Error: "
    /\ r.pass = FALSE
    /\ r.score = Num(0)
    /\ r.severity = "error"

\* the run went on to evaluator k + 1
WentOn(k) == k < NumEvaluators => (ev[k + 1].st = "consumed" /\ Len(results) > k)

\* C10 as claimed: when a scorer (onTopic, toxicity) or a verifier
\* (noHallucinatedUrls) throws, the entry of its evaluator is the synthesized
\* error-severity failing result, and the run goes on unless
\* stopOnFirstFailure is set.
C10_CallbackFaultSynthesized ==
    \A k \in DOMAIN results :
        (ScorerThrew(k) \/ VerifierThrewFor(k) # {}) =>
            /\ IsSynthetic(results[k])
            /\ (Finished /\ ~StopOnFirstFailure(config)) => WentOn(k)

\* C10 amended: a scorer (onTopic, toxicity) that throws gives the synthesized
\* error-severity failing entry; a verifier that throws is caught inside
\* noHallucinatedUrls, whose own result is the entry: pass false, the
\* configured severity, the URL flagged "verification failed"; the run goes on
\* unless stopOnFirstFailure is set and the entry is an error-severity failure.
C10_ScorerFaultSynthesized ==
    \A k \in DOMAIN results :
        /\ ScorerThrew(k) =>
               /\ IsSynthetic(results[k])
               /\ (Finished /\ ~StopOnFirstFailure(config)) => WentOn(k)
        /\ VerifierThrewFor(k) # {} =>
               /\ results[k].name = "noHallucinatedUrls"
               /\ results[k].pass = FALSE
               /\ results[k].severity = config.evaluators[k].severity
               /\ \A u \in VerifierThrewFor(k) :
                      \E f \in DOMAIN results[k].metadata.flagged :
                          results[k].metadata.flagged[f] =
                              [url |-> u, reason |-> "verification failed"]
               /\ (Finished /\ ~(StopOnFirstFailure(config)
                                 /\ results[k].severity = "error")) => WentOn(k)

\* a finished run in which a warning-severity toxicity's scorer threw and a
\* verifier threw, each followed by a further evaluator
C10_Witness ==
    /\ pc = "done"
    /\ Len(results) = 3
    /\ ScorerThrew(1)
    /\ config.evaluators[1].kind = "toxicity"
    /\ config.evaluators[1].severity = "warning"
    /\ results[1].severity = "error"
    /\ VerifierThrewFor(2) # {}

\* C11: with an empty evaluators list evaluate() does not raise and returns a
\* report with empty results, summary.total 0, overallScore 0 and overallPass
\* true, whether stopOnFirstFailure is true, false or absent.
C11_EmptyEvaluators ==
    NumEvaluators = 0 =>
        /\ pc # "raised"
        /\ results = <<>>
        /\ report # NoReport =>
               /\ report.results = <<>>
               /\ report.summary.total = 0
               /\ report.summary.passed = 0 /\ report.summary.failed = 0
               /\ report.overallScore = Num(0)
               /\ report.overallPass = TRUE

\* the report of an empty list has been returned, stopOnFirstFailure being true
C11_Witness ==
    /\ NumEvaluators = 0
    /\ StopOnFirstFailure(config)
    /\ pc = "done"
    /\ report # NoReport
    /\ report.summary.total = 0

-----------------------------------------------------------------------------
(* Properties of the built-in evaluators *)

\* evaluator k is a built-in of this kind whose promise has settled
Ran(k, kind) ==
    /\ k \in 1..NumEvaluators
    /\ config.evaluators[k].kind = kind
    /\ ev[k].st \in {"settled", "consumed"}

ResultOf(k) == ev[k].outcome.value

Scored(k, pass, score) ==
    /\ ev[k].outcome.type = "return"
    /\ ResultOf(k).pass = pass
    /\ ResultOf(k).score = score

\* C12 as claimed: the evaluator of requiredFields([]) passes with score 1
\* for every response, invalid JSON, arrays, null and primitives included.
C12_EmptyFieldsAlwaysPass ==
    \A k \in 1..NumEvaluators :
        (Ran(k, "requiredFields") /\ config.evaluators[k].fields = <<>>)
            => Scored(k, TRUE, Num(1))

\* C12 amended: the evaluator of requiredFields([]) passes with score 1 for
\* every response that parses to a non-array JSON object; for a response that
\* is not valid JSON, or parses to an array, null or a primitive, it fails
\* with score 0.
C12_EmptyFieldsPassOnObjects ==
    \A k \in 1..NumEvaluators :
        (Ran(k, "requiredFields") /\ config.evaluators[k].fields = <<>>)
            => IF response.json.ok /\ response.json.type = "object"
               THEN Scored(k, TRUE, Num(1))
               ELSE Scored(k, FALSE, Num(0))

\* requiredFields([]) has passed on an object that has keys
C12_Witness ==
    /\ Ran(1, "requiredFields")
    /\ config.evaluators[1].fields = <<>>
    /\ response.json.type = "object" /\ response.json.keys # {}
    /\ Scored(1, TRUE, Num(1))

\* C13: on a response that parses to a non-array object, requiredFields
\* counts a field as present exactly when it is a key of the object; score is
\* the number of present fields over the number of fields (1 for no fields);
\* pass is true iff no field is missing.
C13_PresenceIsKeyMembership ==
    \A k \in 1..NumEvaluators :
        (Ran(k, "requiredFields") /\ response.json.ok /\ response.json.type = "object")
            => LET fields == config.evaluators[k].fields
                   present == SelectSeqOf(fields, response.json.keys)
               IN  /\ ev[k].outcome.type = "return"
                   /\ ResultOf(k).metadata.foundFields = present
                   /\ ResultOf(k).score =
                          (IF Len(fields) = 0 THEN Num(1)
                           ELSE Frac(Len(present), Len(fields)))
                   /\ ResultOf(k).pass = (Range(fields) \subseteq response.json.keys)

\* the schema of evaluator k accepts the parsed response
SchemaAccepts(k) ==
    /\ response.json.type = "object"
    /\ config.evaluators[k].schema.required \subseteq response.json.keys

\* C14: malformed input is reported as a value and never thrown: on a
\* response that is not valid JSON jsonSchema and requiredFields return pass
\* false and score 0, requiredFields also when the parsed value is an array,
\* null or a primitive; on valid JSON jsonSchema returns score 1 and pass true
\* when the schema accepts it, score 0 and pass false otherwise.
C14_MalformedInputIsAValue ==
    \A k \in 1..NumEvaluators :
        /\ Ran(k, "requiredFields") =>
               /\ ev[k].outcome.type = "return"
               /\ (~response.json.ok \/ response.json.type # "object")
                      => Scored(k, FALSE, Num(0))
        /\ Ran(k, "jsonSchema") =>
               /\ ev[k].outcome.type = "return"
               /\ ~response.json.ok => Scored(k, FALSE, Num(0))
               /\ (response.json.ok /\ SchemaAccepts(k)) => Scored(k, TRUE, Num(1))
               /\ (response.json.ok /\ ~SchemaAccepts(k)) => Scored(k, FALSE, Num(0))

\* jsonSchema has rejected valid JSON that its schema does not accept
C14_Witness ==
    /\ Ran(1, "jsonSchema")
    /\ response.json.ok
    /\ response.json.type = "object"
    /\ ~SchemaAccepts(1)
    /\ Scored(1, FALSE, Num(0))
    /\ ResultOf(1).metadata.issueCount >= 1

\* the length of the response, a whole number
ResponseLength == Len(response.text)

C16_MinLengthScore ==
    \A k \in 1..NumEvaluators :
        Ran(k, "minLength") =>
            LET minimum == config.evaluators[k].minimum
                n == ResponseLength
                a == minimum[1]
                b == minimum[2]
            IN  /\ ev[k].outcome.type = "return"
                /\ ResultOf(k).pass = NumGe(Num(n), minimum)
                /\ IsFinite(minimum) =>
                       /\ ResultOf(k).pass = (n * b >= a)
                       /\ (a > 0 /\ n * b >= a) => ResultOf(k).score = Num(1)
                       /\ (a > 0 /\ n * b < a) => ResultOf(k).score = Frac(n * b, a)
                       /\ a <= 0 => ResultOf(k).score = Num(1)

\* minLength(3) on a two-character response fails with score 2/3
C16_Witness ==
    /\ Ran(1, "minLength")
    /\ config.evaluators[1].minimum = Num(3)
    /\ ResponseLength = 2
    /\ Scored(1, FALSE, Frac(2, 3))

\* the patterns noPersonalData(options) has enabled: the built-in categories
\* that are not excluded, and every custom pattern
EnabledPatterns(d) ==
    {Pattern(c, c, TRUE, 0) : c \in Range(BUILT_IN_PATTERNS) \ Range(d.exclude)}
    \cup Range(d.customPatterns)

\* the enabled patterns that occur in the response
MatchingPatterns(d) == {p \in EnabledPatterns(d) : MatchCount(response, p.pattern) > 0}

\* C17: noPersonalData passes with score 1 iff no enabled pattern (the five
\* built-in categories minus exclude, plus every custom pattern) matches the
\* response; otherwise it fails with score 0 and metadata.detections has one
\* entry per matching category with the number of its matches; an excluded
\* built-in category never gives a detection.
C17_NoPersonalData ==
    \A k \in 1..NumEvaluators :
        Ran(k, "noPersonalData") =>
            LET d == config.evaluators[k]
                detections == ResultOf(k).metadata.detections
            IN  /\ ev[k].outcome.type = "return"
                /\ IF MatchingPatterns(d) = {} THEN Scored(k, TRUE, Num(1))
                   ELSE Scored(k, FALSE, Num(0))
                /\ Len(detections) = Cardinality(MatchingPatterns(d))
                /\ Range(detections) =
                       {[type |-> p.name, count |-> MatchCount(response, p.pattern)] :
                            p \in MatchingPatterns(d)}
                /\ \A e \in Range(detections) : e.type \notin Range(d.exclude)

\* a number brought into [0,1]
ClampUnit(x) ==
    IF NumLt(x, Num(0)) THEN Num(0) ELSE IF NumGt(x, Num(1)) THEN Num(1) ELSE x

\* the distinct tokens of the topic of evaluator k, and those of the response
TopicTokens(k) == Range(tokenize(config.evaluators[k].topic))
ResponseTokens == Range(tokenize(response.text))

\* the relevance onTopic starts from: the scorer's number, or the fraction of
\* the distinct topic tokens found among the response tokens
RawRelevance(k) ==
    IF config.evaluators[k].scorer.kind = "returns"
    THEN config.evaluators[k].scorer.value
    ELSE IF TopicTokens(k) = {} THEN Num(1)
    ELSE Frac(Cardinality(TopicTokens(k) \cap ResponseTokens),
              Cardinality(TopicTokens(k)))

\* C18: onTopic reports as score the raw relevance clamped to [0,1], the raw
\* relevance being the custom scorer's number when there is a scorer and else
\* the fraction of distinct topic tokens among the response tokens; pass is
\* true iff the clamped score >= the configured threshold (default 0.3), and
\* the reported threshold is the configured one.
C18_OnTopicScore ==
    /\ onTopic(TopicText, NoOptions).threshold = Frac(3, 10)
    /\ \A k \in 1..NumEvaluators :
           (Ran(k, "onTopic") /\ config.evaluators[k].scorer.kind # "throws") =>
               /\ ev[k].outcome.type = "return"
               /\ ResultOf(k).score = ClampUnit(RawRelevance(k))
               /\ InUnitRange(ResultOf(k).score)
               /\ ResultOf(k).pass = NumGe(ResultOf(k).score, config.evaluators[k].threshold)
               /\ ResultOf(k).threshold = config.evaluators[k].threshold

ExtractedUrls == response.urlMatches

\* the labels of host end with the labels of domain
IsSubdomainOrSame(host, domain) ==
    \E n \in 0..Len(host) :
        /\ Len(host) - n = Len(domain)
        /\ Len(domain) > 0
        /\ \A j \in 1..Len(domain) : host[n + j] = domain[j]

\* what is to become of the URL u under the options of evaluator k:
\* "accepted", or the reason it is flagged for
Disposition(k, u) ==
    LET d == config.evaluators[k]
    IN  IF u.parses /\ \E a \in Range(d.allowedDomains) : IsSubdomainOrSame(u.hostname, a)
        THEN "accepted"
        ELSE IF ~u.parses \/ Len(u.hostname) < 2 THEN "malformed URL"
        ELSE IF d.verifier.kind = "none" THEN "accepted"
        ELSE IF d.verifier.answers[u.body] = "reachable" THEN "accepted"
        ELSE IF d.verifier.answers[u.body] = "unreachable" THEN "unreachable"
        ELSE "verification failed"

\* the URLs of the given positions, in order
RECURSIVE UrlsAt(_, _)
UrlsAt(us, keep) ==
    IF us = <<>> THEN <<>>
    ELSE (IF keep[1] THEN <<Head(us)>> ELSE <<>>)
         \o UrlsAt(Tail(us), Tail(keep))

\* C20: noHallucinatedUrls decides each extracted URL in this order: an
\* allowlisted hostname (an allowedDomains entry or a subdomain of one) is
\* accepted outright; else a URL failing structural validation is flagged
\* "malformed URL"; else with a verifier it is accepted on true and flagged
\* "unreachable" on false; else it is accepted.  score is accepted URLs over
\* extracted URLs, pass is true iff none is flagged, and a response without
\* URLs passes with score 1.
C20_UrlDecisionOrder ==
    \A k \in 1..NumEvaluators :
        Ran(k, "noHallucinatedUrls") =>
            LET us == ExtractedUrls
                accepted == [j \in 1..Len(us) |-> Disposition(k, us[j]) = "accepted"]
                rejected == [j \in 1..Len(us) |-> ~accepted[j]]
                valid == UrlsAt(us, accepted)
                flagged == UrlsAt(us, rejected)
            IN  /\ ev[k].outcome.type = "return"
                /\ IF Len(us) = 0 THEN Scored(k, TRUE, Num(1))
                   ELSE /\ ResultOf(k).metadata.valid =
                               [j \in 1..Len(valid) |-> valid[j].body]
                        /\ ResultOf(k).metadata.flagged =
                               [j \in 1..Len(flagged) |->
                                  [url |-> flagged[j].body,
                                   reason |-> Disposition(k, flagged[j])]]
                        /\ ResultOf(k).score = Frac(Len(valid), Len(us))
                        /\ ResultOf(k).pass = (Len(flagged) = 0)

\* three URLs, one of each kind: the first is allowlisted and accepted though
\* its verifier would throw, the second is found unreachable, the third is
\* malformed
C20_Witness ==
    /\ Ran(1, "noHallucinatedUrls")
    /\ Len(ExtractedUrls) = 3
    /\ config.evaluators[1].allowedDomains = <<<<"x", "io">>>>
    /\ config.evaluators[1].verifier = FlakyVerifier
    /\ Scored(1, FALSE, Frac(1, 3))
    /\ ResultOf(1).metadata.valid = <<"http://x.io">>
    /\ ResultOf(1).metadata.flagged =
           <<[url |-> "https://a.dev/p", reason |-> "unreachable"],
             [url |-> "http://localhost", reason |-> "malformed URL"]>>

\* C21: when the verifier of noHallucinatedUrls throws or rejects for a URL
\* the evaluator does not throw: the URL is flagged "verification failed",
\* the URLs after it are still checked (each ends in valid or flagged as its
\* own check decides), and the evaluator returns pass false with its
\* configured severity.
C21_VerifierThrowIsFlagged ==
    \A k \in 1..NumEvaluators :
        (Ran(k, "noHallucinatedUrls") /\ VerifierThrewFor(k) # {}) =>
            LET us == ExtractedUrls
                r == ResultOf(k)
            IN  /\ ev[k].outcome.type = "return"
                /\ r.pass = FALSE
                /\ r.severity = config.evaluators[k].severity
                /\ \A u \in VerifierThrewFor(k) :
                       [url |-> u, reason |-> "verification failed"]
                           \in Range(r.metadata.flagged)
                /\ \A j \in 1..Len(us) :
                       IF Disposition(k, us[j]) = "accepted"
                       THEN us[j].body \in Range(r.metadata.valid)
                       ELSE [url |-> us[j].body, reason |-> Disposition(k, us[j])]
                                \in Range(r.metadata.flagged)
                /\ Len(r.metadata.valid) + Len(r.metadata.flagged) = Len(us)

\* the verifier threw for the first URL; the two after it were still checked
\* and accepted, and the result fails with the configured severity warning
C21_Witness ==
    /\ Ran(1, "noHallucinatedUrls")
    /\ config.evaluators[1].severity = "warning"
    /\ VerifierThrewFor(1) = {"http://x.io"}
    /\ Scored(1, FALSE, Frac(2, 3))
    /\ ResultOf(1).severity = "warning"
    /\ ResultOf(1).metadata.flagged =
           <<[url |-> "http://x.io", reason |-> "verification failed"]>>
    /\ Len(ResultOf(1).metadata.valid) = 2

\* the toxicity the evaluator starts from: the scorer's number, or the
\* keyword heuristic
RawToxicity(k) ==
    IF config.evaluators[k].scorer.kind = "returns"
    THEN config.evaluators[k].scorer.value
    ELSE keywordToxicityScore(response)

\* C22: for toxicity with raw toxicity t (the scorer's output, else the
\* keyword heuristic) clamped to [0,1] and configured threshold T (default
\* 0.5): pass is true iff t < T, the reported score is 1 - t, the reported
\* threshold is 1 - T and metadata.toxicityScore is the clamped t.
C22_ToxicityInversion ==
    /\ toxicity(NoOptions).threshold = Frac(1, 2)
    /\ \A k \in 1..NumEvaluators :
           (Ran(k, "toxicity") /\ config.evaluators[k].scorer.kind # "throws") =>
               LET t == ClampUnit(RawToxicity(k))
                   T == config.evaluators[k].threshold
                   r == ResultOf(k)
               IN  /\ ev[k].outcome.type = "return"
                   /\ InUnitRange(t)
                   /\ r.metadata.toxicityScore = t
                   /\ r.pass = NumLt(t, T)
                   /\ r.score = NumSub(Num(1), t)
                   /\ r.threshold = NumSub(Num(1), T)

\* the weights of the signal categories, in twentieths
SignalWeight20(c) ==
    CASE c = "slur" -> 20 [] c = "threat" -> 16 [] c = "hostility" -> 12 [] OTHER -> 6

SignalCategories == {"slur", "threat", "hostility", "insult"}

MatchedSignals == {c \in SignalCategories : MatchCount(response, c) > 0}

RECURSIVE SumMatches(_)
SumMatches(cs) ==
    IF cs = {} THEN 0
    ELSE LET c == CHOOSE x \in cs : TRUE
         IN  MatchCount(response, c) + SumMatches(cs \ {c})

Least(a, b) == IF a <= b THEN a ELSE b

\* min(1, w + min(0.2, 0.05 * n)), in twentieths
ExpectedToxicity20 ==
    IF MatchedSignals = {} THEN 0
    ELSE LET w == CHOOSE x \in {SignalWeight20(c) : c \in MatchedSignals} :
                      \A c \in MatchedSignals : SignalWeight20(c) <= x
             n == SumMatches(MatchedSignals)
         IN  Least(20, w + Least(4, n))

\* C23: the built-in toxicity heuristic gives 0 when no signal category
\* matches and else min(1, w + min(0.2, 0.05 * n)), w the largest weight among
\* the matched categories (1.0, 0.8, 0.6, 0.3) and n the number of matches
\* over all categories.
C23_KeywordToxicity ==
    \A k \in 1..NumEvaluators :
        (Ran(k, "toxicity") /\ config.evaluators[k].scorer.kind = "none") =>
            /\ ev[k].outcome.type = "return"
            /\ ResultOf(k).metadata.toxicityScore = Frac(ExpectedToxicity20, 20)
            /\ ResultOf(k).metadata.scoringMethod = "keyword"

\* five insults: the weight 0.3 and the boost at its cap 0.2 give 0.5
C23_Witness ==
    /\ Ran(1, "toxicity")
    /\ config.evaluators[1].scorer.kind = "none"
    /\ MatchCount(response, "insult") = 5
    /\ ResultOf(1).metadata.toxicityScore = Frac(1, 2)

BuiltInKinds ==
    {"maxLength", "minLength", "requiredFields", "jsonSchema", "noPersonalData",
     "onTopic", "toxicity", "noHallucinatedUrls"}

\* each factory called with the options o
FactoriesWith(o) ==
    {maxLength(Num(1), o), minLength(Num(1), o), requiredFields(<<"a">>, o),
     jsonSchema([required |-> {"a"}, order |-> <<"a">>], o), noPersonalData(o),
     onTopic(TopicText, o), toxicity(o), noHallucinatedUrls(o)}

\* C24: every result a built-in evaluator returns carries the severity given
\* in the factory's options, on every return path; without the option it is
\* "error" for maxLength, minLength, requiredFields, jsonSchema,
\* noPersonalData, noHallucinatedUrls and toxicity, and "warning" for onTopic.
C24_SeverityCarried ==
    /\ \A s \in Severity : \A d \in FactoriesWith([severity |-> s]) : d.severity = s
    /\ \A d \in FactoriesWith(NoOptions) :
           d.severity = (IF d.kind = "onTopic" THEN "warning" ELSE "error")
    /\ \A k \in 1..NumEvaluators :
           (config.evaluators[k].kind \in BuiltInKinds /\ ev[k].outcome.type = "return")
               => ResultOf(k).severity = config.evaluators[k].severity

\* requiredFields configured with severity info has failed on a response that
\* is not valid JSON, and the result is of severity info
C24_Witness ==
    /\ Ran(1, "requiredFields")
    /\ config.evaluators[1].severity = "info"
    /\ ~response.json.ok
    /\ Scored(1, FALSE, Num(0))
    /\ ResultOf(1).severity = "info"

\* evaluator k has been invoked and its promise has not settled
Pending(k) == k <= NumEvaluators /\ InProgress(k)

\* some invoked evaluator has not settled (never more than one, by C7)
SomePending == \E k \in 1..NumEvaluators : InProgress(k)

\* C25: evaluate() has no timeout or cancellation: while an invoked evaluator
\* has not settled, evaluate() has not returned and no later evaluator has
\* been invoked; if every invoked evaluator eventually settles, evaluate()
\* eventually returns a report; if one never settles, it never returns.
C25_NoTimeout ==
    /\ [](\A k \in 1..MaxEvaluators :
             Pending(k) =>
                 /\ report = NoReport
                 /\ pc = "await"
                 /\ \A j \in 1..NumEvaluators :
                        j > k => ev[j].st = "idle" /\ Count("invoke", j) = 0)
    /\ ([]<>(~SomePending)) => <>(pc = "done" /\ report # NoReport)
    /\ (<>[]SomePending) => [](report = NoReport)

\* a report was returned by a run in which the loop waited for a scorer, for a
\* verifier and for a user-defined evaluator
C25_Witness ==
    /\ pc = "done"
    /\ report # NoReport
    /\ Len(results) = 3
    /\ \E i, j, k \in 1..3 :
           /\ config.evaluators[i].kind = "toxicity"
           /\ config.evaluators[j].kind = "noHallucinatedUrls"
           /\ config.evaluators[k].kind = "custom"
           /\ Count("call", i) = 1 /\ Count("call", j) >= 1

-----------------------------------------------------------------------------
(* Properties of whole runs over lenient or deterministic evaluators.        *)

\* every evaluator of the list is a built-in whose severity is warning or info
AllLenient ==
    \A k \in 1..NumEvaluators :
        /\ config.evaluators[k].kind \in BuiltInKinds
        /\ config.evaluators[k].severity \in {"warning", "info"}

-----------------------------------------------------------------------------
(* The verifier calls of noHallucinatedUrls. *)

\* the arguments of the verifier calls evaluator k has made so far, in order
VerifierCalls(k) ==
    LET es == SelectSeq(log, LAMBDA e : e.op = "call" /\ e.i = k)
    IN  [j \in 1..Len(es) |-> es[j].arg]

\* position j of the extracted URLs is one the verifier of evaluator k is
\* asked about: not allowlisted, structurally valid, and a verifier is given
NeedsVerifier(k, j) ==
    LET d == config.evaluators[k]
        u == ExtractedUrls[j]
    IN  /\ d.verifier.kind # "none"
        /\ ~(u.parses /\ \E a \in Range(d.allowedDomains) : IsSubdomainOrSame(u.hostname, a))
        /\ u.parses /\ Len(u.hostname) >= 2

\* the URLs of the first n positions that need the verifier, in order
VerifiableUpTo(k, n) ==
    LET us == [j \in 1..n |-> ExtractedUrls[j]]
        vs == UrlsAt(us, [j \in 1..n |-> NeedsVerifier(k, j)])
    IN  [j \in 1..Len(vs) |-> vs[j].body]

\* C30: in noHallucinatedUrls every extracted URL ends in exactly one of the
\* lists valid and flagged, so that their lengths add up to urlsFound; the
\* verifier is called at most once per extracted URL, in the order of the URLs
\* in the response, one call at a time (a URL is called for only when every
\* URL before it has been decided), and never for an allowlisted or a
\* structurally invalid URL.
C30_UrlAccounting ==
    \A k \in 1..NumEvaluators :
        config.evaluators[k].kind = "noHallucinatedUrls" =>
            LET us == ExtractedUrls
                n == Len(us)
            IN  /\ IsPrefix(VerifierCalls(k), VerifiableUpTo(k, n))
                /\ ev[k].st = "awaitCb" =>
                       /\ ev[k].k \in 1..n
                       /\ NeedsVerifier(k, ev[k].k)
                       /\ VerifierCalls(k) = VerifiableUpTo(k, ev[k].k)
                       /\ Len(ev[k].valid) + Len(ev[k].flagged) = ev[k].k - 1
                /\ Ran(k, "noHallucinatedUrls") =>
                       /\ ev[k].outcome.type = "return"
                       /\ VerifierCalls(k) = VerifiableUpTo(k, n)
                       /\ ResultOf(k).metadata.urlsFound = n
                       /\ IF n = 0
                          THEN /\ ResultOf(k).metadata.checked = <<>>
                               /\ ResultOf(k).metadata.flagged = <<>>
                          ELSE LET valid == ResultOf(k).metadata.valid
                                   flagged == ResultOf(k).metadata.flagged
                               IN  /\ Len(valid) + Len(flagged) = n
                                   /\ \A j \in 1..n :
                                          Cardinality({v \in DOMAIN valid :
                                                          valid[v] = us[j].body})
                                          + Cardinality({f \in DOMAIN flagged :
                                                            flagged[f].url = us[j].body})
                                          = Cardinality({i \in 1..n :
                                                            us[i].body = us[j].body})

\* of three URLs the first is allowlisted and the last malformed: the verifier
\* was called once, for the second, and every URL is in one of the two lists
C30_Witness ==
    /\ Ran(1, "noHallucinatedUrls")
    /\ Len(ExtractedUrls) = 3
    /\ VerifierCalls(1) = <<"https://a.dev/p">>
    /\ ResultOf(1).metadata.valid = <<"http://x.io">>
    /\ Len(ResultOf(1).metadata.flagged) = 2
    /\ ResultOf(1).metadata.urlsFound = 3

-----------------------------------------------------------------------------
(* pass against score and threshold. *)

\* C29: in every result returned by maxLength, minLength, requiredFields,
\* jsonSchema, noPersonalData, noHallucinatedUrls and onTopic, pass is true
\* exactly when score >= threshold; in every result returned by toxicity,
\* pass is true exactly when score > threshold.
C29_PassIsScoreAgainstThreshold ==
    \A k \in 1..NumEvaluators :
        (/\ config.evaluators[k].kind \in BuiltInKinds
         /\ ev[k].st \in {"settled", "consumed"}
         /\ ev[k].outcome.type = "return") =>
            LET r == ResultOf(k)
            IN  IF config.evaluators[k].kind = "toxicity"
                THEN r.pass <=> NumGt(r.score, r.threshold)
                ELSE r.pass <=> NumGe(r.score, r.threshold)

\* the same, leaving out maxLength with a limit below 0 and minLength with
\* the minimum NaN
C29_ExceptInvalidBounds ==
    \A k \in 1..NumEvaluators :
        (/\ config.evaluators[k].kind \in BuiltInKinds
         /\ ev[k].st \in {"settled", "consumed"}
         /\ ev[k].outcome.type = "return"
         /\ ~(config.evaluators[k].kind = "maxLength"
              /\ NumLt(config.evaluators[k].limit, Num(0)))
         /\ ~(config.evaluators[k].kind = "minLength"
              /\ IsNaN(config.evaluators[k].minimum))) =>
            LET r == ResultOf(k)
            IN  IF config.evaluators[k].kind = "toxicity"
                THEN r.pass <=> NumGt(r.score, r.threshold)
                ELSE r.pass <=> NumGe(r.score, r.threshold)

-----------------------------------------------------------------------------
(* Two calls side by side. *)

\* what evaluate(resp, cfg) gives when it is the only call: every evaluator
\* is run to its end before the next is called, with the signals' lastIndex 0
RECURSIVE SettledAlone(_, _, _)
SettledAlone(d, resp, local) ==
    IF local.st = "settled" THEN local
    ELSE IF local.st = "running" THEN Settled(d.outcome)
    ELSE IF d.kind = "noHallucinatedUrls"
    THEN LET urls == extractUrls(resp)
         IN  SettledAlone(d, resp,
                          urlLoopResume(d, urls, local,
                                        d.verifier.answers[urls[local.k].url]))
    ELSE scorerResume(d)

RECURSIVE ResultsAlone(_, _, _, _)
ResultsAlone(resp, cfg, i, acc) ==
    IF i > Len(cfg.evaluators) THEN acc
    ELSE LET d == cfg.evaluators[i]
             outcome == SettledAlone(d, resp, startEvaluator(d, resp)).outcome
             stop == StopOnFirstFailure(cfg)
             result == IF outcome.type = "return" THEN outcome.value
                       ELSE runtimeErrorResult(d, outcome.error)
             break == IF outcome.type = "return" THEN breakAfterResult(stop, result)
                      ELSE breakAfterThrow(stop)
         IN  IF break THEN push(acc, result)
             ELSE ResultsAlone(resp, cfg, i + 1, push(acc, result))

ReportAlone(resp, cfg) == makeReport(cfg.testName, ResultsAlone(resp, cfg, 1, <<>>))

\* a call that runs alone returns ReportAlone
AloneIsTheRun ==
    /\ IsPrefix(results, ResultsAlone(response, config, 1, <<>>))
    /\ report # NoReport => report = ReportAlone(response, config)

\* the frame of call c, running or suspended
Frame(c) == IF other.id = c THEN other ELSE Call(c)

\* C26: two evaluate() calls interleaved at their suspension points do not
\* interfere: for deterministic evaluators each call collects the results, and
\* returns the results, overallPass, overallScore and summary, that it has
\* when run alone; the lastIndex of the shared signal patterns is 0 whenever
\* a call is suspended.
C26_NoInterference ==
    /\ lastIndex = ZeroIndex
    /\ \A c \in {1, 2} :
           /\ IsPrefix(Frame(c).results,
                       ResultsAlone(Frame(c).response, Frame(c).config, 1, <<>>))
           /\ Frame(c).report # NoReport =>
                  Frame(c).report = ReportAlone(Frame(c).response, Frame(c).config)

\* call 1, made first, has returned its report of two results, the keyword
\* heuristic of toxicity among them, while call 2, which ran the heuristic on
\* the same matching response in between, is still waiting for its verifier
C26_Witness ==
    /\ other # NoCall /\ other.id = 2
    /\ pc = "done" /\ report # NoReport
    /\ Len(report.results) = 2
    /\ \E k \in 1..2 : /\ config.evaluators[k] = toxicity(NoOptions)
                       /\ report.results[k].metadata.toxicityScore = Frac(7, 20)
    /\ other.response = response
    /\ other.pc = "await"
    /\ Len(other.results) = 1
    /\ other.config.evaluators[1] = toxicity(NoOptions)
    /\ other.config.evaluators[2].kind = "noHallucinatedUrls"
    /\ other.ev[2].st = "awaitCb"

\* C28: for deterministic evaluators, the same response and the same list,
\* the results of the report with stopOnFirstFailure true are a prefix of the
\* results of the report with stopOnFirstFailure false, and the two reports
\* have the same overallPass.
C28_StopIsATruncation ==
    \A a, b \in {1, 2} :
        (/\ Frame(a).report # NoReport
         /\ Frame(b).report # NoReport
         /\ Frame(a).response = Frame(b).response
         /\ Frame(a).config.evaluators = Frame(b).config.evaluators
         /\ StopOnFirstFailure(Frame(a).config)
         /\ ~StopOnFirstFailure(Frame(b).config)) =>
            /\ IsPrefix(Frame(a).report.results, Frame(b).report.results)
            /\ Frame(a).report.overallPass = Frame(b).report.overallPass

\* the same list of two on the same response: the run with stopOnFirstFailure
\* stopped after the first evaluator's error, the other went on to the second
C28_Witness ==
    /\ other # NoCall
    /\ Frame(1).report # NoReport
    /\ Frame(2).report # NoReport
    /\ Frame(1).response = Frame(2).response
    /\ Frame(1).config.evaluators = Frame(2).config.evaluators
    /\ StopOnFirstFailure(Frame(1).config)
    /\ ~StopOnFirstFailure(Frame(2).config)
    /\ Len(Frame(1).report.results) = 1
    /\ Len(Frame(2).report.results) = 2
    /\ ~Frame(1).report.overallPass
    /\ ~Frame(2).report.overallPass
    /\ Frame(2).report.results[2].pass

=============================================================================
